---- MODULE Spec2Model ----
(***************************************************************************)
(* recfstab: generate fstab entries from the mounted filesystems and the   *)
(* active swaps under a scan root.                                         *)
(*                                                                         *)
(* A Rust String / &str is modelled as a sequence of one-character         *)
(* strings, so that escaping, splitting and prefix tests are computed      *)
(* character by character as the code computes them.  An Option is a       *)
(* sequence of length 0 (None) or 1 (Some).                                *)
(***************************************************************************)
EXTENDS Integers, Sequences, FiniteSets, TLC

(***************************************************************************)
(* Bounds of the model.                                                    *)
(***************************************************************************)
MaxMounts == 2
MaxSwaps == 1
MaxTokens == 2

(***************************************************************************)
(* Rust standard-library string operations used by the program.            *)
(***************************************************************************)
\* The characters U+0000 to U+00FF, at index value + 1 (`byte as char`):
\* printable ASCII as itself, the others under a name
byte_chars ==
    << "NUL", "SOH", "STX", "ETX", "EOT", "ENQ", "ACK", "BEL",
       "BS", "\t", "\n", "VT", "FF", "\r", "SO", "SI",
       "x10", "x11", "x12", "x13", "x14", "x15", "x16", "x17",
       "x18", "x19", "x1A", "x1B", "x1C", "x1D", "x1E", "x1F",
       " ", "!", "\"", "#", "$", "%", "&", "'",
       "(", ")", "*", "+", ",", "-", ".", "/",
       "0", "1", "2", "3", "4", "5", "6", "7",
       "8", "9", ":", ";", "<", "=", ">", "?",
       "@", "A", "B", "C", "D", "E", "F", "G",
       "H", "I", "J", "K", "L", "M", "N", "O",
       "P", "Q", "R", "S", "T", "U", "V", "W",
       "X", "Y", "Z", "[", "\\", "]", "^", "_",
       "GRAVE", "a", "b", "c", "d", "e", "f", "g",
       "h", "i", "j", "k", "l", "m", "n", "o",
       "p", "q", "r", "s", "t", "u", "v", "w",
       "x", "y", "z", "{", "|", "}", "~", "DEL",
       "x80", "x81", "x82", "x83", "x84", "x85", "x86", "x87",
       "x88", "x89", "x8A", "x8B", "x8C", "x8D", "x8E", "x8F",
       "x90", "x91", "x92", "x93", "x94", "x95", "x96", "x97",
       "x98", "x99", "x9A", "x9B", "x9C", "x9D", "x9E", "x9F",
       "xA0", "xA1", "xA2", "xA3", "xA4", "xA5", "xA6", "xA7",
       "xA8", "xA9", "xAA", "xAB", "xAC", "xAD", "xAE", "xAF",
       "xB0", "xB1", "xB2", "xB3", "xB4", "xB5", "xB6", "xB7",
       "xB8", "xB9", "xBA", "xBB", "xBC", "xBD", "xBE", "xBF",
       "xC0", "xC1", "xC2", "xC3", "xC4", "xC5", "xC6", "xC7",
       "xC8", "xC9", "xCA", "xCB", "xCC", "xCD", "xCE", "xCF",
       "xD0", "xD1", "xD2", "xD3", "xD4", "xD5", "xD6", "xD7",
       "xD8", "xD9", "xDA", "xDB", "xDC", "xDD", "xDE", "xDF",
       "xE0", "xE1", "xE2", "xE3", "xE4", "xE5", "xE6", "xE7",
       "xE8", "xE9", "xEA", "xEB", "xEC", "xED", "xEE", "xEF",
       "xF0", "xF1", "xF2", "xF3", "xF4", "xF5", "xF6", "xF7",
       "xF8", "xF9", "xFA", "xFB", "xFC", "xFD", "xFE", "xFF" >>

\* char::is_whitespace on the characters of byte_chars (White_Space up to U+00FF)
is_whitespace(c) == c \in {" ", "\t", "\n", "\r", "VT", "FF", "x85", "xA0"}

starts_with(s, p) == Len(p) <= Len(s) /\ SubSeq(s, 1, Len(p)) = p

\* s with its first n characters removed
skip_chars(s, n) == SubSeq(s, n + 1, Len(s))

\* Option<&str>: the rest of s after the prefix p
strip_prefix(s, p) == IF starts_with(s, p) THEN <<skip_chars(s, Len(p))>> ELSE <<>>

\* str::trim_start: without the whitespace at the start
trim_start(s) ==
    skip_chars(s, CHOOSE n \in 0..Len(s) :
                      /\ \A k \in 1..n : is_whitespace(s[k])
                      /\ n < Len(s) => ~is_whitespace(s[n + 1]))

\* str::trim_end: without the whitespace at the end
trim_end(s) ==
    SubSeq(s, 1, CHOOSE n \in 0..Len(s) :
                     /\ \A k \in (n + 1)..Len(s) : is_whitespace(s[k])
                     /\ n > 0 => ~is_whitespace(s[n]))

trim(s) == trim_end(trim_start(s))

\* str::trim_end_matches(char): without the run of c at the end
trim_end_matches(s, c) ==
    SubSeq(s, 1, CHOOSE n \in 0..Len(s) :
                     /\ \A k \in (n + 1)..Len(s) : s[k] = c
                     /\ n > 0 => s[n] /= c)

\* str::find(pattern): 1-based position of the first occurrence of the
\* non-empty pat in s, 0 when there is none
find_str(s, pat) ==
    LET at(k) == SubSeq(s, k, k + Len(pat) - 1) = pat
        range == 1..(Len(s) - Len(pat) + 1)
    IN IF \E k \in range : at(k)
       THEN CHOOSE k \in range : at(k) /\ \A m \in 1..(k - 1) : ~at(m)
       ELSE 0

\* str::find(char)
find(s, c) == find_str(s, <<c>>)

\* str::replace: every non-overlapping occurrence of pat, left to right
RECURSIVE replace(_, _, _)
replace(s, pat, rep) ==
    LET p == find_str(s, pat) IN
    IF p = 0 THEN s
    ELSE SubSeq(s, 1, p - 1) \o rep
         \o replace(skip_chars(s, p - 1 + Len(pat)), pat, rep)

\* str::splitn(n, c): at most n pieces, the last one absorbs the rest
RECURSIVE splitn(_, _, _)
splitn(s, n, c) ==
    LET p == find(s, c) IN
    IF n <= 1 \/ p = 0 THEN <<s>>
    ELSE <<SubSeq(s, 1, p - 1)>> \o splitn(skip_chars(s, p), n - 1, c)

\* str::split(c): every piece, empty ones included
split(s, c) == splitn(s, Len(s) + 1, c)

\* length of the leading run of non-whitespace characters
word_len(u) ==
    CHOOSE n \in 0..Len(u) :
        /\ \A k \in 1..n : ~is_whitespace(u[k])
        /\ n < Len(u) => is_whitespace(u[n + 1])

\* str::split_whitespace: the maximal runs of non-whitespace characters
RECURSIVE split_whitespace(_)
split_whitespace(s) ==
    LET t == trim_start(s) IN
    IF t = <<>> THEN <<>>
    ELSE <<SubSeq(t, 1, word_len(t))>>
         \o split_whitespace(skip_chars(t, word_len(t)))

\* [&str]::join(sep)
RECURSIVE join(_, _)
join(parts, sep) ==
    IF parts = <<>> THEN <<>>
    ELSE IF Len(parts) = 1 THEN parts[1]
    ELSE parts[1] \o sep \o join(Tail(parts), sep)

\* str::lines: pieces between "\n", without a final empty piece, each
\* without its trailing "\r"
lines(s) ==
    LET raw == split(s, "\n")
        cut == IF raw[Len(raw)] = <<>> THEN SubSeq(raw, 1, Len(raw) - 1) ELSE raw
        strip_cr(l) == IF l /= <<>> /\ l[Len(l)] = "\r"
                       THEN SubSeq(l, 1, Len(l) - 1) ELSE l
    IN [k \in 1..Len(cut) |-> strip_cr(cut[k])]

(***************************************************************************)
(* src/error.rs                                                            *)
(***************************************************************************)
ErrorCode ==
    {"RootNotFound", "NotADirectory", "CurrentDirFailed", "FindmntNotFound",
     "FindmntFailed", "NoFilesystems"}

code(error_code) ==
    CASE error_code = "RootNotFound" -> "E001"
      [] error_code = "NotADirectory" -> "E002"
      [] error_code = "CurrentDirFailed" -> "E003"
      [] error_code = "FindmntNotFound" -> "E004"
      [] error_code = "FindmntFailed" -> "E005"
      [] error_code = "NoFilesystems" -> "E006"

\* Result<()>: Err(RecfstabError { code, message })
Err(error_code, message) ==
    [status |-> "Err", code |-> error_code, message |-> message]

\* Result<()>: Ok(())
Ok == [status |-> "Ok", code |-> "", message |-> <<>>]

\* run has not returned yet
Running == [status |-> "Running", code |-> "", message |-> <<>>]

root_not_found(path) ==
    Err("RootNotFound",
        <<"r", "o", "o", "t", " ", "d", "i", "r", "e", "c", "t", "o", "r", "y", " ", "'">>
        \o path \o <<"'", " ", "d", "o", "e", "s", " ", "n", "o", "t", " ", "e", "x", "i", "s", "t">>)

not_a_directory(path) ==
    Err("NotADirectory",
        <<"'">> \o path \o <<"'", " ", "i", "s", " ", "n", "o", "t", " ", "a", " ", "d", "i", "r", "e", "c", "t", "o", "r", "y">>)

current_dir_failed(source) ==
    Err("CurrentDirFailed",
        <<"f", "a", "i", "l", "e", "d", " ", "t", "o", " ", "d", "e", "t", "e", "r", "m", "i", "n", "e", " ", "c", "u", "r", "r", "e", "n", "t", " ", "d", "i", "r", "e", "c", "t", "o", "r", "y", ":", " ">>
        \o source)

findmnt_not_found(source) ==
    Err("FindmntNotFound",
        <<"f", "i", "n", "d", "m", "n", "t", " ", "c", "o", "m", "m", "a", "n", "d", " ", "n", "o", "t", " ", "f", "o", "u", "n", "d", " ", "(", "i", "s", " ", "u", "t", "i", "l", "-", "l", "i", "n", "u", "x", " ", "i", "n", "s", "t", "a", "l", "l", "e", "d", "?", ")", ":", " ">>
        \o source)

findmnt_failed(stderr) ==
    Err("FindmntFailed",
        <<"f", "i", "n", "d", "m", "n", "t", " ", "f", "a", "i", "l", "e", "d", ":", " ">>
        \o (IF stderr = <<>> THEN <<"u", "n", "k", "n", "o", "w", "n", " ", "e", "r", "r", "o", "r">>
            ELSE trim(stderr)))

no_filesystems(root) ==
    Err("NoFilesystems",
        <<"n", "o", " ", "f", "i", "l", "e", "s", "y", "s", "t", "e", "m", "s", " ", "f", "o", "u", "n", "d", " ", "u", "n", "d", "e", "r", " ", "'">>
        \o root \o <<"'", " ", "(", "m", "a", "k", "e", " ", "s", "u", "r", "e", " ", "t", "a", "r", "g", "e", "t", " ", "f", "i", "l", "e", "s", "y", "s", "t", "e", "m", "s", " ", "a", "r", "e", " ", "m", "o", "u", "n", "t", "e", "d", ")">>)

(***************************************************************************)
(* src/device.rs                                                           *)
(***************************************************************************)
IdType == {"Uuid", "Label", "Partuuid", "Partlabel"}

blkid_tag(id_type) ==
    CASE id_type = "Uuid" -> <<"U", "U", "I", "D">>
      [] id_type = "Label" -> <<"L", "A", "B", "E", "L">>
      [] id_type = "Partuuid" -> <<"P", "A", "R", "T", "U", "U", "I", "D">>
      [] id_type = "Partlabel" -> <<"P", "A", "R", "T", "L", "A", "B", "E", "L">>

extract_device_path(source) ==
    IF source = <<>> THEN <<>>
    ELSE IF find(source, "[") /= 0
         THEN (IF find(source, "[") = 1 THEN <<>>
               ELSE SubSeq(source, 1, find(source, "[") - 1))
         ELSE source

\* lookup_device_id taking an empty value for an identifier
lookup_device_id_keep_empty(device, tag, blkid) ==
    IF ~blkid.spawned THEN <<>>
    ELSE IF blkid.success
         THEN <<tag \o <<"=">> \o trim(blkid.stdout)>>
         ELSE <<>>


\* The outcome of running blkid: whether the process could be spawned,
\* whether it exited with status 0, and what it wrote to stdout.
\* Returns Option<String>.
lookup_device_id(device, tag, blkid) ==
    IF ~blkid.spawned THEN <<>>
    ELSE IF blkid.success /\ trim(blkid.stdout) /= <<>>
         THEN <<tag \o <<"=">> \o trim(blkid.stdout)>>
         ELSE <<>>

has_identifier_prefix(source) ==
    \/ starts_with(source, <<"U", "U", "I", "D", "=">>)
    \/ starts_with(source, <<"L", "A", "B", "E", "L", "=">>)
    \/ starts_with(source, <<"P", "A", "R", "T", "U", "U", "I", "D", "=">>)
    \/ starts_with(source, <<"P", "A", "R", "T", "L", "A", "B", "E", "L", "=">>)

\* get_device_identifier asking blkid about every device path, in /dev or not
get_device_identifier_any_path(source, id_type, blkid) ==
    IF source = <<>> THEN [id |-> <<"n", "o", "n", "e">>, calls |-> <<>>]
    ELSE IF has_identifier_prefix(source) THEN [id |-> source, calls |-> <<>>]
    ELSE IF extract_device_path(source) = <<>> THEN [id |-> source, calls |-> <<>>]
    ELSE LET device == extract_device_path(source)
             found == lookup_device_id(device, id_type, blkid)
         IN [id |-> IF found /= <<>> THEN found[1]
                    ELSE IF starts_with(device, <<"/", "d", "e", "v", "/">>)
                         THEN device ELSE source,
             calls |-> <<[device |-> device, tag |-> id_type,
                          found |-> found]>>]

\* get_device_identifier returning the device part when that part is empty
get_device_identifier_empty_device(source, id_type, blkid) ==
    IF source = <<>> THEN [id |-> <<"n", "o", "n", "e">>, calls |-> <<>>]
    ELSE IF has_identifier_prefix(source) THEN [id |-> source, calls |-> <<>>]
    ELSE IF extract_device_path(source) = <<>>
    THEN [id |-> extract_device_path(source), calls |-> <<>>]
    ELSE IF starts_with(extract_device_path(source), <<"/", "d", "e", "v", "/">>)
         THEN LET device == extract_device_path(source)
                  found == lookup_device_id(device, id_type, blkid)
              IN [id |-> IF found /= <<>> THEN found[1] ELSE device,
                  calls |-> <<[device |-> device, tag |-> id_type,
                               found |-> found]>>]
    ELSE [id |-> source, calls |-> <<>>]


\* get_device_identifier asking blkid about every source that has a device
\* part, before looking at what the source is
get_device_identifier_always_lookup(source, id_type, blkid) ==
    IF source = <<>> THEN [id |-> <<"n", "o", "n", "e">>, calls |-> <<>>]
    ELSE IF extract_device_path(source) = <<>> THEN [id |-> source, calls |-> <<>>]
    ELSE LET device == extract_device_path(source)
             found == lookup_device_id(device, id_type, blkid)
         IN [id |-> IF found /= <<>> THEN found[1] ELSE device,
             calls |-> <<[device |-> device, tag |-> id_type,
                             found |-> found]>>]

\* id: the returned String; calls: the lookup_device_id calls made on the
\* way (device, tag, and the Option returned), blkid being what the blkid
\* process does.
get_device_identifier(source, id_type, blkid) ==
    IF source = <<>> THEN [id |-> <<"n", "o", "n", "e">>, calls |-> <<>>]
    ELSE IF has_identifier_prefix(source) THEN [id |-> source, calls |-> <<>>]
    ELSE IF extract_device_path(source) = <<>> THEN [id |-> source, calls |-> <<>>]
    ELSE IF starts_with(extract_device_path(source), <<"/", "d", "e", "v", "/">>)
         THEN LET device == extract_device_path(source)
                  found == lookup_device_id(device, id_type, blkid)
              IN [id |-> IF found /= <<>> THEN found[1] ELSE device,
                  calls |-> <<[device |-> device, tag |-> id_type,
                             found |-> found]>>]
    ELSE [id |-> source, calls |-> <<>>]

(***************************************************************************)
(* src/filter.rs                                                           *)
(***************************************************************************)
PSEUDO_FILESYSTEMS ==
    { <<"a", "u", "t", "o", "f", "s">>,
      <<"b", "i", "n", "d", "e", "r">>,
      <<"b", "i", "n", "f", "m", "t", "_", "m", "i", "s", "c">>,
      <<"b", "p", "f">>,
      <<"c", "g", "r", "o", "u", "p">>,
      <<"c", "g", "r", "o", "u", "p", "2">>,
      <<"c", "o", "n", "f", "i", "g", "f", "s">>,
      <<"d", "e", "b", "u", "g", "f", "s">>,
      <<"d", "e", "v", "p", "t", "s">>,
      <<"d", "e", "v", "t", "m", "p", "f", "s">>,
      <<"e", "f", "i", "v", "a", "r", "f", "s">>,
      <<"f", "u", "s", "e", ".", "g", "v", "f", "s", "d", "-", "f", "u", "s", "e">>,
      <<"f", "u", "s", "e", ".", "p", "o", "r", "t", "a", "l">>,
      <<"f", "u", "s", "e", "c", "t", "l">>,
      <<"h", "u", "g", "e", "t", "l", "b", "f", "s">>,
      <<"m", "q", "u", "e", "u", "e">>,
      <<"n", "s", "f", "s">>,
      <<"o", "v", "e", "r", "l", "a", "y">>,
      <<"p", "r", "o", "c">>,
      <<"p", "s", "t", "o", "r", "e">>,
      <<"r", "a", "m", "f", "s">>,
      <<"r", "p", "c", "_", "p", "i", "p", "e", "f", "s">>,
      <<"s", "e", "c", "u", "r", "i", "t", "y", "f", "s">>,
      <<"s", "e", "l", "i", "n", "u", "x", "f", "s">>,
      <<"s", "y", "s", "f", "s">>,
      <<"t", "m", "p", "f", "s">>,
      <<"t", "r", "a", "c", "e", "f", "s">> }

RUNTIME_OPTIONS ==
    { <<"l", "a", "z", "y", "t", "i", "m", "e">>,
      <<"n", "o", "a", "t", "i", "m", "e">>,
      <<"r", "e", "l", "a", "t", "i", "m", "e">>,
      <<"r", "o">>,
      <<"r", "w">>,
      <<"s", "e", "c", "l", "a", "b", "e", "l">> }

\* the u8 value of a character
char_byte(c) == CHOOSE n \in 0..255 : byte_chars[n + 1] = c

\* str::to_ascii_lowercase
to_ascii_lowercase(s) ==
    [k \in 1..Len(s) |-> IF char_byte(s[k]) \in 65..90
                          THEN byte_chars[char_byte(s[k]) + 32 + 1]
                          ELSE s[k]]

\* is_pseudo_filesystem comparing without regard to case
is_pseudo_filesystem_ignore_case(fstype) ==
    to_ascii_lowercase(fstype) \in PSEUDO_FILESYSTEMS

is_pseudo_filesystem(fstype) == fstype \in PSEUDO_FILESYSTEMS

\* keep_option without the test for an empty option
keep_option_keep_empty(opt) ==
    /\ opt \notin RUNTIME_OPTIONS
    /\ ~starts_with(opt, <<"s", "u", "b", "v", "o", "l", "i", "d", "=">>)


keep_option(opt) ==
    /\ opt /= <<>>
    /\ opt \notin RUNTIME_OPTIONS
    /\ ~starts_with(opt, <<"s", "u", "b", "v", "o", "l", "i", "d", "=">>)

filter_options(options) ==
    LET tokens == split(options, ",")
        trimmed == [k \in 1..Len(tokens) |-> trim(tokens[k])]
        filtered == SelectSeq(trimmed, keep_option)
    IN IF filtered = <<>> THEN <<"d", "e", "f", "a", "u", "l", "t", "s">>
       ELSE join(filtered, <<",">>)

\* is_under_root as a plain prefix test, without the separator
is_under_root_prefix(target, root_str) ==
    target = root_str \/ starts_with(target, root_str)

is_under_root(target, root_str) ==
    IF root_str = <<"/">> THEN TRUE
    ELSE target = root_str \/ starts_with(target, root_str \o <<"/">>)

(***************************************************************************)
(* src/fstab.rs                                                            *)
(***************************************************************************)
\* escape_char without the arm for '#'
escape_char_no_hash(c) ==
    CASE c = "\\" -> <<"\\", "1", "3", "4">>
      [] c = " " -> <<"\\", "0", "4", "0">>
      [] c = "\t" -> <<"\\", "0", "1", "1">>
      [] c = "\n" -> <<"\\", "0", "1", "2">>
      [] c = "\r" -> <<"\\", "0", "1", "5">>
      [] OTHER -> <<c>>


escape_char(c) ==
    CASE c = "\\" -> <<"\\", "1", "3", "4">>
      [] c = " " -> <<"\\", "0", "4", "0">>
      [] c = "\t" -> <<"\\", "0", "1", "1">>
      [] c = "\n" -> <<"\\", "0", "1", "2">>
      [] c = "\r" -> <<"\\", "0", "1", "5">>
      [] c = "#" -> <<"\\", "0", "4", "3">>
      [] OTHER -> <<c>>

\* the loop over s.chars(), evaluated by halves
RECURSIVE escape_fstab(_)
escape_fstab(s) ==
    IF s = <<>> THEN <<>>
    ELSE IF Len(s) = 1 THEN escape_char(s[1])
    ELSE escape_fstab(SubSeq(s, 1, Len(s) \div 2))
         \o escape_fstab(SubSeq(s, Len(s) \div 2 + 1, Len(s)))

\* make_fstab_target returning what is left of the target as it is
make_fstab_target_as_stripped(target, root_str) ==
    IF target = <<>> THEN <<"/">>
    ELSE IF target = root_str THEN <<"/">>
    ELSE LET stripped == IF strip_prefix(target, root_str) /= <<>>
                         THEN strip_prefix(target, root_str)[1]
                         ELSE target
         IN IF stripped = <<>> THEN <<"/">> ELSE stripped


make_fstab_target(target, root_str) ==
    IF target = <<>> THEN <<"/">>
    ELSE IF target = root_str THEN <<"/">>
    ELSE LET stripped == IF strip_prefix(target, root_str) /= <<>>
                         THEN strip_prefix(target, root_str)[1]
                         ELSE target
         IN IF stripped = <<>> \/ starts_with(stripped, <<"/">>)
            THEN (IF stripped = <<>> THEN <<"/">> ELSE stripped)
            ELSE <<"/">> \o stripped

\* needs_fsck that also takes vfat and btrfs
needs_fsck_with_vfat_btrfs(fstype) ==
    fstype \in { <<"e", "x", "t", "2">>, <<"e", "x", "t", "3">>,
                 <<"e", "x", "t", "4">>, <<"x", "f", "s">>,
                 <<"f", "2", "f", "s">>, <<"v", "f", "a", "t">>,
                 <<"b", "t", "r", "f", "s">> }


needs_fsck(fstype) ==
    fstype \in { <<"e", "x", "t", "2">>, <<"e", "x", "t", "3">>,
                 <<"e", "x", "t", "4">>, <<"x", "f", "s">>,
                 <<"f", "2", "f", "s">> }

determine_pass_number(fstab_target, fstype) ==
    IF fstab_target = <<"/">> THEN 1
    ELSE IF needs_fsck(fstype) THEN 2
    ELSE 0

(***************************************************************************)
(* src/mount.rs                                                            *)
(***************************************************************************)
\* unescape_findmnt with the backslash decoded first
unescape_findmnt_backslash_first(s) ==
    replace(
      replace(
        replace(
          replace(
            replace(s, <<"\\", "x", "5", "c">>, <<"\\">>),
            <<"\\", "x", "2", "0">>, <<" ">>),
          <<"\\", "x", "0", "9">>, <<"\t">>),
        <<"\\", "x", "0", "a">>, <<"\n">>),
      <<"\\", "x", "0", "d">>, <<"\r">>)

\* mount.rs 76-83
unescape_findmnt(s) ==
    replace(
      replace(
        replace(
          replace(
            replace(s, <<"\\", "x", "2", "0">>, <<" ">>),
            <<"\\", "x", "0", "9">>, <<"\t">>),
          <<"\\", "x", "0", "a">>, <<"\n">>),
        <<"\\", "x", "0", "d">>, <<"\r">>),
      <<"\\", "x", "5", "c">>, <<"\\">>)

\* parse_mount_line without line.trim()
parse_mount_line_no_trim(line) ==
    LET parts == splitn(line, 4, " ") IN
    IF line = <<>> THEN <<>>
    ELSE IF Len(parts) < 4 THEN <<>>
    ELSE IF unescape_findmnt(parts[1]) = <<>> \/ parts[3] = <<>> THEN <<>>
    ELSE << [target |-> unescape_findmnt(parts[1]),
             source |-> unescape_findmnt(parts[2]),
             fstype |-> parts[3],
             options |-> parts[4]] >>

\* Option<MountInfo>
parse_mount_line(line) ==
    LET parts == splitn(trim(line), 4, " ") IN
    IF trim(line) = <<>> THEN <<>>
    ELSE IF Len(parts) < 4 THEN <<>>
    ELSE IF unescape_findmnt(parts[1]) = <<>> \/ parts[3] = <<>> THEN <<>>
    ELSE << [target |-> unescape_findmnt(parts[1]),
             source |-> unescape_findmnt(parts[2]),
             fstype |-> parts[3],
             options |-> parts[4]] >>

\* The loop of get_mounts over the lines of findmnt's stdout
RECURSIVE parse_mount_lines(_)
parse_mount_lines(ls) ==
    IF ls = <<>> THEN <<>>
    ELSE parse_mount_line(Head(ls)) \o parse_mount_lines(Tail(ls))

\* get_mounts with failures swallowed (unwrap_or_default): an empty table
get_mounts_lenient(out) ==
    IF ~out.spawned \/ ~out.success THEN [err |-> <<>>, mounts |-> <<>>]
    ELSE [err |-> <<>>, mounts |-> parse_mount_lines(lines(out.stdout))]

\* out: the outcome of Command::new("findmnt")...output(), with the text of
\* the io::Error when the process could not be spawned.
\* Result<Vec<MountInfo>>: err is None on Ok.
get_mounts(out) ==
    IF ~out.spawned
    THEN [err |-> <<findmnt_not_found(out.io_error)>>, mounts |-> <<>>]
    ELSE IF ~out.success
    THEN [err |-> <<findmnt_failed(out.stderr)>>, mounts |-> <<>>]
    ELSE [err |-> <<>>, mounts |-> parse_mount_lines(lines(out.stdout))]

(***************************************************************************)
(* src/swap.rs                                                             *)
(***************************************************************************)
\* is_octal_digit refusing the digit 0
is_octal_digit_nonzero(c) == c \in {"1", "2", "3", "4", "5", "6", "7"}

\* digit.is_ascii_digit() && digit != '8' && digit != '9'
is_octal_digit(c) == c \in {"0", "1", "2", "3", "4", "5", "6", "7"}

octal_value(c) ==
    CASE c = "0" -> 0 [] c = "1" -> 1 [] c = "2" -> 2 [] c = "3" -> 3
      [] c = "4" -> 4 [] c = "5" -> 5 [] c = "6" -> 6 [] c = "7" -> 7

\* the `for _ in 0..3` loop: the octal digits taken after a backslash, which
\* stops at the first character that is not one
take_octal(rest) ==
    SubSeq(rest, 1, CHOOSE n \in 0..3 :
                        /\ n <= Len(rest)
                        /\ \A k \in 1..n : is_octal_digit(rest[k])
                        /\ (n < 3 /\ n < Len(rest)) => ~is_octal_digit(rest[n + 1]))

\* from_str_radix reading the three digits in base 10
from_str_radix_decimal(octal) ==
    LET v == 100 * octal_value(octal[1]) + 10 * octal_value(octal[2])
             + octal_value(octal[3])
    IN IF v <= 255 THEN <<v>> ELSE <<>>


\* u8::from_str_radix(octal, 8) of three digits: Option<u8>, Err above 255
from_str_radix(octal) ==
    LET v == 64 * octal_value(octal[1]) + 8 * octal_value(octal[2])
             + octal_value(octal[3])
    IN IF v <= 255 THEN <<v>> ELSE <<>>

\* the while loop over s.chars(): characters before the next backslash are
\* copied, then the backslash and the digits after it are decoded
RECURSIVE unescape_proc_swaps(_)
unescape_proc_swaps(s) ==
    LET p == find(s, "\\") IN
    IF p = 0 THEN s
    ELSE LET octal == take_octal(skip_chars(s, p))
             rest == skip_chars(s, p + Len(octal))
         IN SubSeq(s, 1, p - 1)
            \o (IF Len(octal) = 3 /\ from_str_radix(octal) /= <<>>
                THEN <<byte_chars[from_str_radix(octal)[1] + 1]>>
                ELSE <<"\\">> \o octal)
            \o unescape_proc_swaps(rest)

\* Option<SwapInfo>
parse_swap_line(line) ==
    LET parts == split_whitespace(trim(line)) IN
    IF trim(line) = <<>> THEN <<>>
    ELSE IF Len(parts) < 2 THEN <<>>
    ELSE IF unescape_proc_swaps(parts[1]) = <<>> THEN <<>>
    ELSE << [filename |-> unescape_proc_swaps(parts[1]),
             swap_type |-> parts[2]] >>

\* is_zram as an equality test
is_zram_exact(path) == path = <<"/", "d", "e", "v", "/", "z", "r", "a", "m">>

is_zram(path) == starts_with(path, <<"/", "d", "e", "v", "/", "z", "r", "a", "m">>)

\* The loop of read_swaps over the lines after the header
RECURSIVE parse_swap_lines(_)
parse_swap_lines(ls) ==
    IF ls = <<>> THEN <<>>
    ELSE LET swap == parse_swap_line(Head(ls)) IN
         (IF swap /= <<>> /\ ~is_zram(swap[1].filename) THEN swap ELSE <<>>)
         \o parse_swap_lines(Tail(ls))

\* read_swaps without skip(1): the header line is parsed as a record
read_swaps_no_skip(content) ==
    IF content = <<>> THEN <<>>
    ELSE parse_swap_lines(lines(content[1]))

\* content: Option<String>, the result of fs::read_to_string("/proc/swaps")
read_swaps(content) ==
    IF content = <<>> THEN <<>>
    ELSE parse_swap_lines(skip_chars(lines(content[1]), 1))

is_swap_file(path) == ~starts_with(path, <<"/", "d", "e", "v", "/">>)

\* is_swap_under_root taking every swap, file or device
is_swap_under_root_always(swap, root) == TRUE


is_swap_under_root(swap, root) ==
    IF is_swap_file(swap.filename)
    THEN (IF root = <<"/">> THEN TRUE
          ELSE \/ swap.filename = trim_end_matches(root, "/")
               \/ starts_with(swap.filename,
                              trim_end_matches(root, "/") \o <<"/">>))
    ELSE TRUE

\* id and calls as in get_device_identifier
get_swap_identifier(swap, id_type, blkid) ==
    IF is_swap_file(swap.filename)
    THEN [id |-> swap.filename, calls |-> <<>>]
    ELSE get_device_identifier(swap.filename, id_type, blkid)

get_swap_target(swap, root) ==
    IF is_swap_file(swap.filename)
    THEN LET canonical_root == IF root = <<"/">> THEN root
                               ELSE trim_end_matches(root, "/")
             relative == strip_prefix(swap.filename, canonical_root)
         IN IF swap.filename = canonical_root THEN <<"/">>
            ELSE IF relative /= <<>>
                 THEN (IF relative[1] = <<>> \/ starts_with(relative[1], <<"/">>)
                       THEN (IF relative[1] = <<>> THEN <<"/">> ELSE relative[1])
                       ELSE <<"/">> \o relative[1])
            ELSE swap.filename
    ELSE <<"n", "o", "n", "e">>

(***************************************************************************)
(* The environment of one run: the command-line argument, the filesystem   *)
(* state of the scan root, and the answers of findmnt, /proc/swaps, blkid. *)
(***************************************************************************)
\* the root_path arguments tried
RootArgs ==
    { <<>>,
      <<" ", "\t">>,
      <<" ", "/", "m", "n", "t", "/", " ">> }

\* the id_type arguments tried
IdTypeArgs == {"Uuid", "Partlabel"}

\* the text of the std::io::Error of a failed canonicalize or spawn
IoErrorText ==
    <<"o", "s", " ", "e", "r", "r", "o", "r">>

\* What the filesystem answers about the trimmed root path: exists(),
\* is_dir() and canonicalize() (an Option, with the text of the io::Error
\* when it fails).  canonicalize returns an absolute
\* path without a trailing slash, "/" for the filesystem root; the path
\* given may be a symlink, so that either can be the answer.
PathStates ==
    { [exists |-> FALSE, is_dir |-> FALSE, canonical |-> <<>>,
       io_error |-> IoErrorText],
      [exists |-> TRUE, is_dir |-> FALSE, canonical |-> <<>>,
       io_error |-> IoErrorText],
      [exists |-> TRUE, is_dir |-> TRUE, canonical |-> <<>>,
       io_error |-> IoErrorText],
      [exists |-> TRUE, is_dir |-> TRUE, canonical |-> << <<"/">> >>,
       io_error |-> <<>>],
      [exists |-> TRUE, is_dir |-> TRUE, canonical |-> << <<"/", "m", "n", "t">> >>,
       io_error |-> <<>>] }

\* lines that findmnt -rn -o TARGET,SOURCE,FSTYPE,OPTIONS may print
MountLines ==
    { <<"/", "m", "n", "t", " ", "/", "d", "e", "v", "/", "s", "d", "a", "1", " ", "e", "x", "t", "4", " ", "r", "w", ",", "r", "e", "l", "a", "t", "i", "m", "e">>,
      <<"/", "m", "n", "t", " ", "/", "d", "e", "v", "/", "z", "r", "a", "m", "1", " ", "x", "f", "s", " ", "r", "o">>,
      <<"/", "m", "n", "t", " ", "a", "u", "t", "o", "f", "s", " ", "a", "u", "t", "o", "f", "s", " ", "r", "w">>,
      <<"/", "m", "n", "t", "/", " ", "U", "U", "I", "D", "=", "a", "b", " ", "T", "M", "P", "F", "S", " ", "r", "w", ",", "a", " ", "b">>,
      <<"/", "m", "n", "t", "/", "a", "\\", "x", "2", "0", "b", " ", "/", "d", "e", "v", "/", "s", "\\", "x", "0", "a", "b", "[", "/", "@", "]", " ", "n", "t", "f", "s", "3", " ", "r", "w", ",", "s", "u", "b", "v", "o", "l", "i", "d", "=", "5", ",", "s", "u", "b", "v", "o", "l", "=", "/", "@">>,
      <<"/", "m", "n", "t", "2", " ", "s", "r", "v", ":", "/", "b", "1", " ", "v", "f", "a", "t", " ", "r", "w", ",", "f", "m", "a", "s", "k", "=", "0", "0", "7", "7">>,
      <<"/", "m", "n", "t", " ", "/", "d", "e", "v", "/", "s", "d", "a", "1">> }

\* every text of at most n lines of a set, each line ended by "\n"
RECURSIVE Texts(_, _)
Texts(ls, n) ==
    IF n = 0 THEN { <<>> }
    ELSE { <<>> } \cup { l \o <<"\n">> \o t : l \in ls, t \in Texts(ls, n - 1) }

\* what findmnt wrote to stderr when it failed
FindmntStderr ==
    { <<>>, <<" ", "\n">>,
      <<"b", "a", "d", " ", "u", "s", "a", "g", "e", "\n">> }

\* the outcome of Command::new("findmnt")...output()
FindmntOutcomes ==
    { [spawned |-> FALSE, success |-> FALSE, stdout |-> <<>>, stderr |-> <<>>,
       io_error |-> IoErrorText] }
    \cup { [spawned |-> TRUE, success |-> FALSE, stdout |-> <<>>, stderr |-> e,
             io_error |-> <<>>] : e \in FindmntStderr }
    \cup { [spawned |-> TRUE, success |-> TRUE, stdout |-> t, stderr |-> <<>>,
             io_error |-> <<>>] : t \in Texts(MountLines, MaxMounts) }

\* the header line of /proc/swaps
SwapHeader ==
    <<"F", "i", "l", "e", "n", "a", "m", "e", "\t", "T", "y", "p", "e", "\t", "S", "i", "z", "e", "\t", "U", "s", "e", "d", "\t", "P", "r", "i", "o", "r", "i", "t", "y">>

\* body lines that /proc/swaps may hold
SwapLines ==
    { <<"/", "d", "e", "v", "/", "a", "3", " ", "p", "a", "r", "t", "i", "t", "i", "o", "n", " ", "1", " ", "0", " ", "-", "2">>,
      <<"/", "m", "n", "t", "/", "s", "\\", "0", "1", "2", "w", "\\", "0", "4", "0", "f", " ", "f", "i", "l", "e", " ", "1", " ", "0", " ", "-", "3">>,
      <<"/", "d", "e", "v", "/", "z", "r", "a", "m", "0", " ", "p", "a", "r", "t", "i", "t", "i", "o", "n", " ", "1", " ", "0", " ", "1", "0", "0">>,
      <<"/", "s", "w", "a", "p", "f", "i", "l", "e", " ", "f", "i", "l", "e", " ", "1", " ", "0", " ", "-", "2">> }

\* Option<String>: the result of fs::read_to_string("/proc/swaps");
\* None when the file cannot be read
ProcSwaps ==
    { <<>> } \cup
    { <<SwapHeader \o <<"\n">> \o t>> : t \in Texts(SwapLines, MaxSwaps) }

\* the outcome of Command::new("blkid")...output()
BlkidOutcomes ==
    { [spawned |-> FALSE, success |-> FALSE, stdout |-> <<>>],
      [spawned |-> TRUE, success |-> FALSE, stdout |-> <<>>],
      [spawned |-> TRUE, success |-> TRUE, stdout |-> <<"\n">>],
      [spawned |-> TRUE, success |-> TRUE, stdout |-> <<"a", " ", "b", "\n">>],
      [spawned |-> TRUE, success |-> TRUE,
       stdout |-> <<"a", "b", "c", "d", "-", "1", "2", "3", "4", "\n">>] }

\* the outcomes of blkid tried inside run: blkid missing, failing, printing
\* nothing, and printing a UUID
RunBlkidOutcomes ==
    { b \in BlkidOutcomes : find(b.stdout, " ") = 0 }

(***************************************************************************)
(* src/lib.rs: run, and the printing half of src/swap.rs                   *)
(***************************************************************************)
\* validated_root canonicalizing before it looks at what the path is
validated_root_canonicalize_first(path, st) ==
    IF ~st.exists THEN [err |-> <<root_not_found(path)>>, root_str |-> <<>>]
    ELSE IF st.canonical = <<>>
    THEN [err |-> <<current_dir_failed(st.io_error)>>, root_str |-> <<>>]
    ELSE IF ~st.is_dir THEN [err |-> <<not_a_directory(path)>>, root_str |-> <<>>]
    ELSE [err |-> <<>>,
          root_str |-> IF st.canonical[1] = <<"/">> THEN st.canonical[1]
                       ELSE trim_end_matches(st.canonical[1], "/")]

\* lib.rs 62-82: the checks on the root and its canonical form.
\* Result<String>: err is None on Ok, root_str the normalised canonical root.
validated_root(path, st) ==
    IF ~st.exists THEN [err |-> <<root_not_found(path)>>, root_str |-> <<>>]
    ELSE IF ~st.is_dir THEN [err |-> <<not_a_directory(path)>>, root_str |-> <<>>]
    ELSE IF st.canonical = <<>>
    THEN [err |-> <<current_dir_failed(st.io_error)>>, root_str |-> <<>>]
    ELSE [err |-> <<>>,
          root_str |-> IF st.canonical[1] = <<"/">> THEN st.canonical[1]
                       ELSE trim_end_matches(st.canonical[1], "/")]

\* the duplicate check left out
seen_contains_never(seen, mount) == FALSE

\* lib.rs 104: seen_targets.contains(&mount.target)
seen_contains(seen, mount) == mount.target \in seen

\* `{}` of a u8 pass number
pass_digit(pass) == CASE pass = 0 -> "0" [] pass = 1 -> "1" [] pass = 2 -> "2"

\* println!(text)
println(text) == text \o <<"\n">>

\* print_mount_entry with the identifier in the comment line
print_mount_entry_comment_identifier(source, identifier, fstab_target, fstype, filtered_options, pass) ==
    println(<<"#", " ">> \o identifier)
    \o println(escape_fstab(identifier) \o <<"\t">> \o escape_fstab(fstab_target)
               \o <<"\t">> \o fstype \o <<"\t">> \o filtered_options
               \o <<"\t", "0", "\t">> \o <<pass_digit(pass)>>)
    \o println(<<>>)


\* the three println! of the mount loop
print_mount_entry(source, identifier, fstab_target, fstype, filtered_options, pass) ==
    println(<<"#", " ">> \o source)
    \o println(escape_fstab(identifier) \o <<"\t">> \o escape_fstab(fstab_target)
               \o <<"\t">> \o fstype \o <<"\t">> \o filtered_options
               \o <<"\t", "0", "\t">> \o <<pass_digit(pass)>>)
    \o println(<<>>)

\* print_swap_entries over a slice; every lookup it makes is answered by
\* blkid (run passes slices of one element).  first: the position in swaps
\* of the head of the slice.  out: the text printed; calls: the blkid
\* invocations; printed: the blocks as logged in entries.
RECURSIVE print_swap_entries(_, _, _, _, _)
print_swap_entries(slice, first, root, id_tag, blkid) ==
    IF slice = <<>> THEN [out |-> <<>>, calls |-> <<>>, printed |-> <<>>]
    ELSE LET swap == Head(slice)
             rest == print_swap_entries(Tail(slice), first + 1, root, id_tag, blkid)
             identifier == get_swap_identifier(swap, id_tag, blkid)
             target == get_swap_target(swap, root)
         IN IF ~is_swap_under_root(swap, root) THEN rest
            ELSE [out |-> println(<<"#", " ">> \o swap.filename)
                          \o println(escape_fstab(identifier.id) \o <<"\t">>
                                     \o escape_fstab(target)
                                     \o <<"\t", "s", "w", "a", "p", "\t">>
                                     \o <<"d", "e", "f", "a", "u", "l", "t", "s">>
                                     \o <<"\t", "0", "\t", "0">>)
                          \o println(<<>>)
                          \o rest.out,
                  calls |-> identifier.calls \o rest.calls,
                  printed |-> <<[kind |-> "swap", index |-> first,
                                 source |-> swap.filename,
                                 identifier |-> identifier.id,
                                 target |-> target,
                                 fstype |-> <<"s", "w", "a", "p">>,
                                 options |-> <<"d", "e", "f", "a", "u", "l", "t", "s">>,
                                 pass |-> 0]>> \o rest.printed]

(***************************************************************************)
(* src/main.rs: the binary, with its own copies of the functions           *)
(***************************************************************************)
\* anyhow's bail!(message)
main_bail(message) == [status |-> "Err", code |-> "", message |-> message]

\* .context(message) on an io::Error, as `{:?}` prints the chain
main_context(message, source) ==
    [status |-> "Err", code |-> "",
     message |-> message \o <<"\n", "\n">> \o <<"C", "a", "u", "s", "e", "d", " ", "b", "y", ":", "\n", " ", " ", " ", " ">> \o source]

\* Option<MountInfo>
main_parse_mount_line(line) ==
    LET parts == splitn(line, 4, " ") IN
    IF Len(parts) < 4 THEN <<>>
    ELSE << [target |-> parts[1], source |-> parts[2], fstype |-> parts[3],
             options |-> parts[4]] >>

\* the loop of get_mounts over the lines of findmnt's stdout
RECURSIVE main_parse_mount_lines(_)
main_parse_mount_lines(ls) ==
    IF ls = <<>> THEN <<>>
    ELSE main_parse_mount_line(Head(ls)) \o main_parse_mount_lines(Tail(ls))

\* Result<Vec<MountInfo>>: err is None on Ok
main_get_mounts(out) ==
    IF ~out.spawned
    THEN [err |-> <<main_context(<<"F", "a", "i", "l", "e", "d", " ", "t", "o", " ", "e", "x", "e", "c", "u", "t", "e", " ", "f", "i", "n", "d", "m", "n", "t", ".", " ", "I", "s", " ", "u", "t", "i", "l", "-", "l", "i", "n", "u", "x", " ", "i", "n", "s", "t", "a", "l", "l", "e", "d", "?">>,
                                 out.io_error)>>,
          mounts |-> <<>>]
    ELSE IF ~out.success
    THEN [err |-> <<main_bail(<<"f", "i", "n", "d", "m", "n", "t", " ", "c", "o", "m", "m", "a", "n", "d", " ", "f", "a", "i", "l", "e", "d", ":", " ">>
                              \o (IF out.stderr = <<>>
                                  THEN <<"u", "n", "k", "n", "o", "w", "n", " ", "e", "r", "r", "o", "r">>
                                  ELSE trim(out.stderr)))>>,
          mounts |-> <<>>]
    ELSE [err |-> <<>>, mounts |-> main_parse_mount_lines(lines(out.stdout))]

main_is_pseudo_filesystem(fstype) == fstype \in PSEUDO_FILESYSTEMS

main_make_fstab_target(target, root_str) ==
    IF target = root_str THEN <<"/">>
    ELSE LET stripped == IF strip_prefix(target, root_str) /= <<>>
                         THEN strip_prefix(target, root_str)[1]
                         ELSE target
         IN IF starts_with(stripped, <<"/">>) THEN stripped
            ELSE <<"/">> \o stripped

main_extract_device_path(source) ==
    IF find(source, "[") /= 0 THEN SubSeq(source, 1, find(source, "[") - 1)
    ELSE source

\* Option<String>
main_lookup_device_id(device, use_label, blkid) ==
    LET tag == IF use_label THEN <<"L", "A", "B", "E", "L">>
               ELSE <<"U", "U", "I", "D">>
    IN IF ~blkid.spawned THEN <<>>
       ELSE IF blkid.success /\ trim(blkid.stdout) /= <<>>
            THEN <<tag \o <<"=">> \o trim(blkid.stdout)>>
            ELSE <<>>

\* id and calls as in get_device_identifier
main_get_device_identifier(source, use_label, blkid) ==
    IF \/ starts_with(source, <<"U", "U", "I", "D", "=">>)
       \/ starts_with(source, <<"L", "A", "B", "E", "L", "=">>)
    THEN [id |-> source, calls |-> <<>>]
    ELSE IF starts_with(main_extract_device_path(source), <<"/", "d", "e", "v", "/">>)
         THEN LET device == main_extract_device_path(source)
                  found == main_lookup_device_id(device, use_label, blkid)
              IN [id |-> IF found /= <<>> THEN found[1] ELSE device,
                  calls |-> <<[device |-> device,
                               tag |-> IF use_label THEN <<"L", "A", "B", "E", "L">>
                                       ELSE <<"U", "U", "I", "D">>,
                               found |-> found]>>]
    ELSE [id |-> source, calls |-> <<>>]

main_needs_fsck(fstype) ==
    fstype \in { <<"e", "x", "t", "2">>, <<"e", "x", "t", "3">>,
                 <<"e", "x", "t", "4">>, <<"x", "f", "s">>,
                 <<"b", "t", "r", "f", "s">>, <<"v", "f", "a", "t">>,
                 <<"f", "2", "f", "s">> }

main_determine_pass_number(fstab_target, fstype) ==
    IF fstab_target = <<"/">> THEN 1
    ELSE IF main_needs_fsck(fstype) THEN 2
    ELSE 0

main_keep_option(opt) ==
    /\ opt \notin RUNTIME_OPTIONS
    /\ ~starts_with(opt, <<"s", "u", "b", "v", "o", "l", "i", "d", "=">>)

main_filter_options(options) ==
    LET filtered == SelectSeq(split(options, ","), main_keep_option)
    IN IF filtered = <<>> THEN <<"d", "e", "f", "a", "u", "l", "t", "s">>
       ELSE join(filtered, <<",">>)

\* the three println! of main.rs 150-155
main_print_mount_entry(source, identifier, fstab_target, fstype, filtered_options, pass) ==
    println(<<"#", " ">> \o source)
    \o println(identifier \o <<"\t">> \o fstab_target \o <<"\t">> \o fstype
               \o <<"\t">> \o filtered_options \o <<"\t", "0", "\t">>
               \o <<pass_digit(pass)>>)
    \o println(<<>>)

\* the eprintln! of main.rs 160-166
main_warning(root_path) ==
    println(<<"W", "a", "r", "n", "i", "n", "g", ":", " ", "N", "o", " ", "f", "i", "l", "e", "s", "y", "s", "t", "e", "m", "s", " ", "f", "o", "u", "n", "d", " ", "u", "n", "d", "e", "r", " ", "'">> \o root_path
            \o <<"'", ".", " ", "M", "a", "k", "e", " ", "s", "u", "r", "e", " ", "y", "o", "u", "r", " ", "t", "a", "r", "g", "e", "t", " ", "f", "i", "l", "e", "s", "y", "s", "t", "e", "m", "s", " ", "a", "r", "e", " ", "m", "o", "u", "n", "t", "e", "d", ".">>)

\* main.rs 100-112: the checks on the root.
\* Result<String>: err is None on Ok, root_str the canonical root.
main_validated_root(root_path, st) ==
    IF ~st.exists
    THEN [err |-> <<main_bail(<<"R", "o", "o", "t", " ", "d", "i", "r", "e", "c", "t", "o", "r", "y", " ", "'">> \o root_path
                              \o <<"'", " ", "d", "o", "e", "s", " ", "n", "o", "t", " ", "e", "x", "i", "s", "t">>)>>,
          root_str |-> <<>>]
    ELSE IF ~st.is_dir
    THEN [err |-> <<main_bail(<<"'">> \o root_path
                              \o <<"'", " ", "i", "s", " ", "n", "o", "t", " ", "a", " ", "d", "i", "r", "e", "c", "t", "o", "r", "y">>)>>,
          root_str |-> <<>>]
    ELSE IF st.canonical = <<>>
    THEN [err |-> <<main_context(<<"F", "a", "i", "l", "e", "d", " ", "t", "o", " ", "c", "a", "n", "o", "n", "i", "c", "a", "l", "i", "z", "e", " ", "p", "a", "t", "h", " ", "'">> \o root_path \o <<"'">>,
                                 st.io_error)>>,
          root_str |-> <<>>]
    ELSE [err |-> <<>>, root_str |-> st.canonical[1]]

\* what the runtime writes to stderr when main returns Err(e): "Error: {e:?}"
main_report(err) ==
    println(<<"E", "r", "r", "o", "r", ":", " ">> \o err.message)


VARIABLES
    pc,            \* where run is: "validate", "get_mounts", "mount_loop",
                   \* "swap_loop", "done" ("call" outside of run)
    root_path,     \* the root_path argument
    id_type,       \* the IdType argument
    root,          \* the trimmed root_path
    root_str,      \* the canonical scan root without trailing slash
    mounts,        \* Vec<MountInfo> returned by get_mounts
    i,             \* position of the `for mount in mounts` loop
    seen_targets,  \* HashSet<String> of the targets already emitted
    found_any,     \* whether an entry was emitted
    swaps,         \* Vec<SwapInfo> returned by read_swaps
    j,             \* position of the `for swap_entry in &swaps` loop
    stdout,        \* the characters written to standard output
    result,        \* the value run returns
    path_state,    \* Option: what the filesystem answered about the root
    findmnt,       \* Option: the outcome of the findmnt invocation
    proc_swaps,    \* the reads of /proc/swaps made (each an Option<String>)
    blkid_calls,   \* the lookup_device_id calls made: (device, tag, found)
    entries,       \* log of the entry blocks printed, in order
    call,          \* the library functions called on their own, each with
                   \* its arguments and what the processes it runs will do
    ret,           \* what the calls made have returned
    stderr,        \* the characters written to standard error
    exit_status    \* Option: the exit status of the process

vars ==
    <<pc, root_path, id_type, root, root_str, mounts, i, seen_targets,
      found_any, swaps, j, stdout, result, path_state, findmnt, proc_swaps,
      blkid_calls, entries, call, ret, stderr, exit_status>>

\* the variables of run before it starts
RunStart ==
    /\ root = <<>>
    /\ root_str = <<>>
    /\ mounts = <<>>
    /\ i = 1
    /\ seen_targets = {}
    /\ found_any = FALSE
    /\ swaps = <<>>
    /\ j = 1
    /\ stdout = <<>>
    /\ result = Running
    /\ path_state = <<>>
    /\ findmnt = <<>>
    /\ proc_swaps = <<>>
    /\ blkid_calls = <<>>
    /\ entries = <<>>
    /\ stderr = <<>>
    /\ exit_status = <<>>

Init ==
    /\ pc = "validate"
    /\ root_path \in RootArgs
    /\ id_type \in IdTypeArgs
    /\ RunStart
    /\ call = <<>>
    /\ ret = <<>>

\* run returns early with an error
Return(err) ==
    /\ pc' = "done"
    /\ result' = err

\* lib.rs 57-60: the argument is empty once trimmed
ValidateEmptyRoot ==
    /\ pc = "validate"
    /\ trim(root_path) = <<>>
    /\ root' = trim(root_path)
    /\ Return(root_not_found(<<"(", "e", "m", "p", "t", "y", " ", "p", "a", "t", "h", ")">>))
    /\ UNCHANGED <<root_path, id_type, stderr, exit_status, root_str, mounts, i, seen_targets,
                   found_any, swaps, j, stdout, path_state, findmnt, proc_swaps,
                   blkid_calls, entries, call, ret, stderr, exit_status>>

\* lib.rs 57-85: exists, is_dir, canonicalize, trailing-slash normalisation
ValidateRoot ==
    /\ pc = "validate"
    /\ trim(root_path) /= <<>>
    /\ root' = trim(root_path)
    /\ \E st \in PathStates :
         /\ path_state' = <<st>>
         /\ LET checked == validated_root(trim(root_path), st) IN
            IF checked.err /= <<>> THEN
              /\ Return(checked.err[1])
              /\ UNCHANGED root_str
            ELSE
              /\ root_str' = checked.root_str
              /\ pc' = "get_mounts"
              /\ UNCHANGED result
    /\ UNCHANGED <<root_path, id_type, stderr, exit_status, mounts, i, seen_targets, found_any, swaps,
                   j, stdout, findmnt, proc_swaps, blkid_calls, entries, call,
                   ret>>

\* lib.rs 88-90: get_mounts()?, then the loop state is set up
GetMounts ==
    /\ pc = "get_mounts"
    /\ \E out \in FindmntOutcomes :
         /\ findmnt' = <<out>>
         /\ IF get_mounts(out).err /= <<>> THEN
              /\ Return(get_mounts(out).err[1])
              /\ UNCHANGED <<mounts, i, seen_targets, found_any>>
            ELSE
              /\ mounts' = get_mounts(out).mounts
              /\ i' = 1
              /\ seen_targets' = {}
              /\ found_any' = FALSE
              /\ pc' = "mount_loop"
              /\ UNCHANGED result
    /\ UNCHANGED <<root_path, id_type, stderr, exit_status, root, root_str, swaps, j, stdout,
                   path_state, proc_swaps, blkid_calls, entries, call, ret>>

\* MountStep that records the target before the pseudo-filesystem filter
MountStep_seen_before_pseudo_filter ==
    /\ pc = "mount_loop"
    /\ i <= Len(mounts)
    /\ i' = i + 1
    /\ LET mount == mounts[i] IN
       IF ~is_under_root(mount.target, root_str) THEN
         UNCHANGED <<seen_targets, found_any, stdout, blkid_calls, entries>>
       ELSE IF is_pseudo_filesystem(mount.fstype) THEN
         /\ seen_targets' = seen_targets \cup {mount.target}
         /\ UNCHANGED <<found_any, stdout, blkid_calls, entries>>
       ELSE IF seen_contains(seen_targets, mount) THEN
         UNCHANGED <<seen_targets, found_any, stdout, blkid_calls, entries>>
       ELSE \E blkid \in RunBlkidOutcomes :
         LET fstab_target == make_fstab_target(mount.target, root_str)
             identifier == get_device_identifier(mount.source, blkid_tag(id_type), blkid)
             pass == determine_pass_number(fstab_target, mount.fstype)
             filtered_options == filter_options(mount.options)
         IN /\ seen_targets' = seen_targets \cup {mount.target}
            /\ blkid_calls' = blkid_calls \o identifier.calls
            /\ stdout' = stdout \o print_mount_entry(mount.source, identifier.id,
                                       fstab_target, mount.fstype,
                                       filtered_options, pass)
            /\ entries' = Append(entries,
                            [kind |-> "mount", index |-> i,
                             source |-> mount.source,
                             identifier |-> identifier.id,
                             target |-> fstab_target, fstype |-> mount.fstype,
                             options |-> filtered_options, pass |-> pass])
            /\ found_any' = TRUE
    /\ UNCHANGED <<pc, root_path, id_type, stderr, exit_status, root, root_str, mounts, swaps, j,
                   result, path_state, findmnt, proc_swaps, call, ret>>

\* lib.rs 92-134: one iteration of the mount loop
MountStep ==
    /\ pc = "mount_loop"
    /\ i <= Len(mounts)
    /\ i' = i + 1
    /\ LET mount == mounts[i] IN
       IF ~is_under_root(mount.target, root_str) THEN
         UNCHANGED <<seen_targets, found_any, stdout, blkid_calls, entries>>
       ELSE IF is_pseudo_filesystem(mount.fstype) THEN
         UNCHANGED <<seen_targets, found_any, stdout, blkid_calls, entries>>
       ELSE IF seen_contains(seen_targets, mount) THEN
         UNCHANGED <<seen_targets, found_any, stdout, blkid_calls, entries>>
       ELSE \E blkid \in RunBlkidOutcomes :
         LET fstab_target == make_fstab_target(mount.target, root_str)
             identifier == get_device_identifier(mount.source, blkid_tag(id_type), blkid)
             pass == determine_pass_number(fstab_target, mount.fstype)
             filtered_options == filter_options(mount.options)
         IN /\ seen_targets' = seen_targets \cup {mount.target}
            /\ blkid_calls' = blkid_calls \o identifier.calls
            /\ stdout' = stdout \o print_mount_entry(mount.source, identifier.id,
                                       fstab_target, mount.fstype,
                                       filtered_options, pass)
            /\ entries' = Append(entries,
                            [kind |-> "mount", index |-> i,
                             source |-> mount.source,
                             identifier |-> identifier.id,
                             target |-> fstab_target, fstype |-> mount.fstype,
                             options |-> filtered_options, pass |-> pass])
            /\ found_any' = TRUE
    /\ UNCHANGED <<pc, root_path, id_type, stderr, exit_status, root, root_str, mounts, swaps, j,
                   result, path_state, findmnt, proc_swaps, call, ret>>

\* lib.rs 137 with swap.rs 21-41: read_swaps, once the mount loop is over
\* (read_swaps never returns Err, so `if let Ok(swaps)` always matches)
ReadSwaps ==
    /\ pc = "mount_loop"
    /\ i > Len(mounts)
    /\ \E content \in ProcSwaps :
         /\ proc_swaps' = Append(proc_swaps, content)
         /\ swaps' = read_swaps(content)
    /\ j' = 1
    /\ pc' = "swap_loop"
    /\ UNCHANGED <<root_path, id_type, stderr, exit_status, root, root_str, mounts, i, seen_targets,
                   found_any, stdout, result, path_state, findmnt, blkid_calls,
                   entries, call, ret>>

\* SwapStep that leaves found_any alone when it prints a swap
SwapStep_found_any_unset ==
    /\ pc = "swap_loop"
    /\ j <= Len(swaps)
    /\ j' = j + 1
    /\ IF is_swap_under_root(swaps[j], root_str) THEN
         \E blkid \in RunBlkidOutcomes :
           LET printed == print_swap_entries(<<swaps[j]>>, j, root_str,
                                             blkid_tag(id_type), blkid)
           IN /\ stdout' = stdout \o printed.out
              /\ blkid_calls' = blkid_calls \o printed.calls
              /\ entries' = entries \o printed.printed
              /\ UNCHANGED found_any
       ELSE UNCHANGED <<found_any, stdout, blkid_calls, entries>>
    /\ UNCHANGED <<pc, root_path, id_type, stderr, exit_status, root, root_str, mounts, i,
                   seen_targets, swaps, result, path_state, findmnt, proc_swaps,
                   call, ret>>

\* lib.rs 138-143: one iteration of the swap loop
SwapStep ==
    /\ pc = "swap_loop"
    /\ j <= Len(swaps)
    /\ j' = j + 1
    /\ IF is_swap_under_root(swaps[j], root_str) THEN
         \E blkid \in RunBlkidOutcomes :
           LET printed == print_swap_entries(<<swaps[j]>>, j, root_str,
                                             blkid_tag(id_type), blkid)
           IN /\ stdout' = stdout \o printed.out
              /\ blkid_calls' = blkid_calls \o printed.calls
              /\ entries' = entries \o printed.printed
              /\ found_any' = TRUE
       ELSE UNCHANGED <<found_any, stdout, blkid_calls, entries>>
    /\ UNCHANGED <<pc, root_path, id_type, stderr, exit_status, root, root_str, mounts, i,
                   seen_targets, swaps, result, path_state, findmnt, proc_swaps,
                   call, ret>>

\* Finish that only warns when nothing was found, and returns Ok
Finish_warn_only ==
    /\ pc = "swap_loop"
    /\ j > Len(swaps)
    /\ pc' = "done"
    /\ result' = Ok
    /\ UNCHANGED <<root_path, id_type, stderr, exit_status, root, root_str, mounts, i, seen_targets,
                   found_any, swaps, j, stdout, path_state, findmnt, proc_swaps,
                   blkid_calls, entries, call, ret, stderr, exit_status>>

\* lib.rs 146-150: the result of a run that got through both loops
Finish ==
    /\ pc = "swap_loop"
    /\ j > Len(swaps)
    /\ pc' = "done"
    /\ result' = IF ~found_any THEN no_filesystems(root) ELSE Ok
    /\ UNCHANGED <<root_path, id_type, stderr, exit_status, root, root_str, mounts, i, seen_targets,
                   found_any, swaps, j, stdout, path_state, findmnt, proc_swaps,
                   blkid_calls, entries, call, ret, stderr, exit_status>>

Next ==
    \/ ValidateEmptyRoot
    \/ ValidateRoot
    \/ GetMounts
    \/ MountStep
    \/ ReadSwaps
    \/ SwapStep
    \/ Finish

Spec == Init /\ [][Next]_vars

(***************************************************************************)
(* get_device_identifier called on its own                                 *)
(***************************************************************************)
\* the four recognised identifier prefixes
TagPrefixes ==
    { <<"U", "U", "I", "D", "=">>,
      <<"L", "A", "B", "E", "L", "=">>,
      <<"P", "A", "R", "T", "U", "U", "I", "D", "=">>,
      <<"P", "A", "R", "T", "L", "A", "B", "E", "L", "=">> }

\* the sources tried: a tag prefix, or something that is not one, followed
\* by a value, a device path, a bracketed subvolume or nothing
DeviceSources ==
    { p \o v : p \in TagPrefixes \cup { <<>>,
                                <<"u", "u", "i", "d", "=">>,
                                <<"/", "d", "e", "v", "/">> },
               v \in { <<>>,
                 <<"a", "b">>,
                 <<"/", "d", "e", "v", "/", "s", "d", "a", "1">>,
                 <<"s", "d", "a", "1", "[", "/", "@", "]">>,
                 <<"[", "x", "]">>,
                 <<"[", "/", "d", "e", "v", "/", "b", "1">>,
                 <<"a", " ", "b">> } }

InitDevice ==
    /\ pc = "call"
    /\ root_path = <<>>
    /\ id_type \in IdType
    /\ RunStart
    /\ call \in { <<[fn |-> "get_device_identifier", source |-> s,
                      blkid |-> b]>> :
                    s \in DeviceSources, b \in BlkidOutcomes }
    /\ ret = <<>>

\* device.rs 68-101: get_device_identifier(source, id_type.blkid_tag())
CallGetDeviceIdentifier ==
    /\ pc = "call"
    /\ call /= <<>>
    /\ call[1].fn = "get_device_identifier"
    /\ LET returned == get_device_identifier(call[1].source,
                                             blkid_tag(id_type), call[1].blkid)
       IN /\ ret' = <<returned.id>>
          /\ blkid_calls' = blkid_calls \o returned.calls
    /\ pc' = "returned"
    /\ UNCHANGED <<root_path, id_type, stderr, exit_status, root, root_str, mounts, i, seen_targets,
                   found_any, swaps, j, stdout, result, path_state, findmnt,
                   proc_swaps, entries, call>>

NextDevice == CallGetDeviceIdentifier

SpecDevice == InitDevice /\ [][NextDevice]_vars

(***************************************************************************)
(* The binary: main of src/main.rs                                         *)
(***************************************************************************)
\* the ROOT arguments tried: paths that may be symbolic links
MainRootArgs ==
    { <<"/", "m", "n", "t", "/">>, <<"t", "a", "r", "g", "e", "t">> }

\* Args::parse() has returned: root is root_path, and label (-L) is told by
\* id_type, "Label" when it is set and "Uuid" when it is not
InitMain ==
    /\ pc = "main"
    /\ root_path \in MainRootArgs
    /\ id_type \in {"Uuid", "Label"}
    /\ RunStart
    /\ call = <<>>
    /\ ret = <<>>

\* run returns Err(err) to main, which returns it: the runtime reports it
\* on stderr and the process exits with status 1
MainFails(err) ==
    /\ result' = err
    /\ stderr' = stderr \o main_report(err)
    /\ exit_status' = <<1>>
    /\ pc' = "exited"

\* main.rs 90-112: main calls run, which checks the root
MainValidateRoot ==
    /\ pc = "main"
    /\ \E st \in PathStates :
         /\ path_state' = <<st>>
         /\ LET checked == main_validated_root(root_path, st) IN
            IF checked.err /= <<>> THEN
              /\ MainFails(checked.err[1])
              /\ UNCHANGED root_str
            ELSE
              /\ root_str' = checked.root_str
              /\ pc' = "main_get_mounts"
              /\ UNCHANGED <<result, stderr, exit_status>>
    /\ UNCHANGED <<root_path, id_type, root, mounts, i, seen_targets, found_any,
                   swaps, j, stdout, findmnt, proc_swaps, blkid_calls, entries,
                   call, ret>>

\* main.rs 115-117
MainGetMounts ==
    /\ pc = "main_get_mounts"
    /\ \E out \in FindmntOutcomes :
         /\ findmnt' = <<out>>
         /\ IF main_get_mounts(out).err /= <<>> THEN
              /\ MainFails(main_get_mounts(out).err[1])
              /\ UNCHANGED <<mounts, i, seen_targets, found_any>>
            ELSE
              /\ mounts' = main_get_mounts(out).mounts
              /\ i' = 1
              /\ seen_targets' = {}
              /\ found_any' = FALSE
              /\ pc' = "main_mount_loop"
              /\ UNCHANGED <<result, stderr, exit_status>>
    /\ UNCHANGED <<root_path, id_type, root, root_str, swaps, j, stdout,
                   path_state, proc_swaps, blkid_calls, entries, call, ret>>

\* main.rs 119-157: one iteration of the mount loop
MainMountStep ==
    /\ pc = "main_mount_loop"
    /\ i <= Len(mounts)
    /\ i' = i + 1
    /\ LET mount == mounts[i] IN
       IF ~starts_with(mount.target, root_str) /\ mount.target /= root_str THEN
         UNCHANGED <<seen_targets, found_any, stdout, blkid_calls, entries>>
       ELSE IF main_is_pseudo_filesystem(mount.fstype) THEN
         UNCHANGED <<seen_targets, found_any, stdout, blkid_calls, entries>>
       ELSE IF mount.target \in seen_targets THEN
         UNCHANGED <<seen_targets, found_any, stdout, blkid_calls, entries>>
       ELSE \E blkid \in RunBlkidOutcomes :
         LET fstab_target == main_make_fstab_target(mount.target, root_str)
             identifier == main_get_device_identifier(mount.source,
                                                      id_type = "Label", blkid)
             pass == main_determine_pass_number(fstab_target, mount.fstype)
             filtered_options == main_filter_options(mount.options)
         IN /\ seen_targets' = seen_targets \cup {mount.target}
            /\ blkid_calls' = blkid_calls \o identifier.calls
            /\ stdout' = stdout \o main_print_mount_entry(mount.source,
                                       identifier.id, fstab_target,
                                       mount.fstype, filtered_options, pass)
            /\ entries' = Append(entries,
                            [kind |-> "mount", index |-> i,
                             source |-> mount.source,
                             identifier |-> identifier.id,
                             target |-> fstab_target, fstype |-> mount.fstype,
                             options |-> filtered_options, pass |-> pass])
            /\ found_any' = TRUE
    /\ UNCHANGED <<pc, root_path, id_type, root, root_str, mounts, swaps, j,
                   result, path_state, findmnt, proc_swaps, call, ret, stderr,
                   exit_status>>

\* main.rs 159-168 and 90-93: the warning when nothing was found; run
\* returns Ok(()), main returns it and the process exits with status 0
MainExit ==
    /\ pc = "main_mount_loop"
    /\ i > Len(mounts)
    /\ stderr' = IF ~found_any THEN stderr \o main_warning(root_path) ELSE stderr
    /\ result' = Ok
    /\ exit_status' = <<0>>
    /\ pc' = "exited"
    /\ UNCHANGED <<root_path, id_type, root, root_str, mounts, i, seen_targets,
                   found_any, swaps, j, stdout, path_state, findmnt, proc_swaps,
                   blkid_calls, entries, call, ret>>

NextMain ==
    \/ MainValidateRoot
    \/ MainGetMounts
    \/ MainMountStep
    \/ MainExit

SpecMain == InitMain /\ [][NextMain]_vars


(***************************************************************************)
(* The library functions called on their own                               *)
(***************************************************************************)
\* every concatenation of at most n texts of a set
RECURSIVE Concats(_, _)
Concats(ts, n) ==
    IF n = 0 THEN { <<>> }
    ELSE { <<>> } \cup { t \o c : t \in ts, c \in Concats(ts, n - 1) }

\* every sequence of 1 to n elements of a set
RECURSIVE Lists(_, _)
Lists(ts, n) ==
    IF n = 0 THEN { }
    ELSE { <<t>> : t \in ts }
         \cup { <<t>> \o l : t \in ts, l \in Lists(ts, n - 1) }

\* what may stand between the commas of an options string
OptionTokens ==
    { <<>>,
      <<" ">>,
      <<"r", "w">>,
      <<" ", "r", "o", " ">>,
      <<"r", "e", "l", "a", "t", "i", "m", "e">>,
      <<"n", "o", "a", "t", "i", "m", "e">>,
      <<"l", "a", "z", "y", "t", "i", "m", "e">>,
      <<"s", "e", "c", "l", "a", "b", "e", "l">>,
      <<"R", "W">>,
      <<"s", "u", "b", "v", "o", "l", "i", "d", "=", "5">>,
      <<"s", "u", "b", "v", "o", "l", "=", "/", "@">>,
      <<"x", "-", "s", "y", "s", "t", "e", "m", "d", ".", "a", "u", "t", "o", "m", "o", "u", "n", "t">>,
      <<"a", " ", "b">>,
      <<"\t", "r", "w", "\t">> }

\* the options strings tried: the tokens of a list, joined by commas
OptionsArgs ==
    { join(l, <<",">>) : l \in Lists(OptionTokens, MaxTokens + 1) }

\* the targets and roots tried with make_fstab_target
PathArgs ==
    { <<>>,
      <<"/">>,
      <<"/", "m", "n", "t">>,
      <<"/", "m", "n", "t", "/">>,
      <<"/", "m", "n", "t", "/", "b", "o", "o", "t">>,
      <<"/", "m", "n", "t", "/", "/", "b", "o", "o", "t">>,
      <<"/", "m", "n", "t", "2">>,
      <<"/", "m", "n", "t", "/", "a", " ", "b">>,
      <<"/", "o", "t", "h", "e", "r">>,
      <<"m", "n", "t">>,
      <<"/", "m">> }

\* the normalized targets tried with determine_pass_number
FstabTargetArgs ==
    { <<"/">>,
      <<>>,
      <<"/", "/">>,
      <<"/", "b", "o", "o", "t">>,
      <<"/", "b", "o", "o", "t", "/", "e", "f", "i">>,
      <<"/", "d", "a", "t", "a">>,
      <<"/", " ">> }

\* the filesystem types tried with determine_pass_number
FstypeArgs ==
    { <<"e", "x", "t", "2">>,
      <<"e", "x", "t", "3">>,
      <<"e", "x", "t", "4">>,
      <<"x", "f", "s">>,
      <<"f", "2", "f", "s">>,
      <<"b", "t", "r", "f", "s">>,
      <<"v", "f", "a", "t">>,
      <<"E", "X", "T", "4">>,
      <<"e", "x", "t">>,
      <<"e", "x", "t", "4", "4">>,
      <<"x", "f", "s", " ">>,
      <<>>,
      <<"s", "w", "a", "p">> }

\* the pieces of the texts tried with escape_fstab (E9 is U+00E9)
PlainTokens ==
    { <<" ">>,
      <<"\t">>,
      <<"\n">>,
      <<"\r">>,
      <<"\\">>,
      <<"#">>,
      <<"a">>,
      <<"xE9">>,
      <<"0", "4", "0">>,
      <<"\\", "1">>,
      <<"x", "2", "0">> }

\* the pieces of the texts tried with unescape_findmnt
FindmntTokens ==
    { <<"\\", "x", "2", "0">>,
      <<"\\", "x", "0", "9">>,
      <<"\\", "x", "0", "a">>,
      <<"\\", "x", "0", "d">>,
      <<"\\", "x", "5", "c">>,
      <<"x", "2", "0">>,
      <<"0", "4", "0">>,
      <<"\\">>,
      <<"a">>,
      <<"\\", "x", "5">>,
      <<"\\", "x", "2">>,
      <<"\\", "x">>,
      <<"#">> }

\* the pieces of the texts tried with unescape_proc_swaps
ProcSwapsTokens ==
    { <<"\\", "0", "4", "0">>,
      <<"\\", "0", "1", "1">>,
      <<"\\", "0", "1", "2">>,
      <<"\\", "0", "1", "5">>,
      <<"\\", "1", "3", "4">>,
      <<"\\", "0", "4", "3">>,
      <<"\\", "7", "7", "7">>,
      <<"\\", "4", "0", "0">>,
      <<"\\", "0", "8">>,
      <<"\\">>,
      <<"0">>,
      <<"7">>,
      <<"9">>,
      <<"a">> }

\* the lines tried with parse_mount_line: those of the mount tables of the
\* runs, and lines with blank, missing, empty and escaped fields
ParseLineArgs ==
    MountLines \cup
    { <<>>,
      <<" ", " ", "\t">>,
      <<" ", "/", "m", "n", "t", " ", "/", "d", "e", "v", "/", "s", "d", "a", "1", " ", "e", "x", "t", "4", " ", "r", "w", " ", "\t">>,
      <<"/", "m", "n", "t", " ", " ", "e", "x", "t", "4", " ", "r", "w">>,
      <<"/", "m", "n", "t", " ", "/", "d", "e", "v", "/", "s", "d", "a", "1", " ", " ", "r", "w">>,
      <<"/", "m", "n", "t", " ", "/", "d", "e", "v", "/", "s", "d", "a", "1", " ", "e", "x", "t", "4">>,
      <<"/", "m", "n", "t", " ", "/", "d", "e", "v", "/", "s", "d", "a", "1", " ", "e", "x", "t", "4", " ">>,
      <<"/", "m", "n", "t", " ", "/", "d", "e", "v", "/", "s", "d", "a", "1", " ", "e", "x", "t", "\\", "x", "2", "0", " ", "r", "w", "\\", "x", "2", "0", " ", "x", " ", " ", "y">>,
      <<"/", "m", "n", "t", "\t", "/", "d", "e", "v", "/", "s", "d", "a", "1", " ", "e", "x", "t", "4", " ", "r", "w", " ", "x">>,
      <<"\\", "x", "5", "c", "x", "2", "0", " ", "\\", "x", " ", "\\", "x", "5", "c", " ", "\\", "x", "0", "a">> }

\* the contents of /proc/swaps tried with read_swaps, as Options: none,
\* empty, with and without a header, with blank, short and zram lines
ReadSwapsArgs ==
    { <<>>,
      <<<<>>>>,
      <<<<"F", "i", "l", "e", "n", "a", "m", "e", "\t", "T", "y", "p", "e", "\n", "/", "d", "e", "v", "/", "a", "3", " ", "p", "a", "r", "t", "i", "t", "i", "o", "n", " ", "1", " ", "0", " ", "-", "2", "\n">>>>,
      <<<<"/", "d", "e", "v", "/", "a", "3", " ", "p", "a", "r", "t", "i", "t", "i", "o", "n", "\n", "/", "d", "e", "v", "/", "b", "1", " ", "p", "a", "r", "t", "i", "t", "i", "o", "n", "\n">>>>,
      <<<<"F", "i", "l", "e", "n", "a", "m", "e", "\n", "/", "d", "e", "v", "/", "z", "r", "a", "\\", "1", "5", "5", " ", "p", "a", "r", "t", "i", "t", "i", "o", "n", "\n", "\n", " ", " ", "\n", "/", "s", "w", "a", "p", "f", "i", "l", "e", "\n", " ", "\t", "/", "s", "w", "\\", "0", "4", "0", "f", " ", "\t", " ", "f", "i", "l", "e", " ", " ", "9", "\n", "/", "d", "e", "v", "/", "z", "r", "a", "m", "0", " ", "x", "\n", "/", "d", "e", "v", "/", "s", "d", "a", "2", "\t", "p", "a", "r", "t", "i", "t", "i", "o", "n", "\r", "\n">>>> }

\* the swap-file paths tried with the swap helpers: none begins with /dev/
SwapFileArgs ==
    { p \in PathArgs \cup
             { <<"/", "s", "w", "a", "p", "f", "i", "l", "e">>,
               <<"s", "w", "a", "p", "f", "i", "l", "e">>,
               <<"/", "/", "s", "w", "a", "p", "f", "i", "l", "e">>,
               <<"/", "m", "n", "t", "/", "s", "w", "a", "p", "\t", "f", "i", "l", "e">>,
               <<"/", "d", "e", "v", "x">>,
               <<"/", "d", "e", "v">> } :
        is_swap_file(p) }

\* the scan roots as run normalizes them (lib.rs 76-82): "/" or a path
\* without a trailing slash
NormalizedRootArgs ==
    { r \in PathArgs : r = <<"/">> \/ r = <<>> \/ r[Len(r)] /= "/" }

\* the calls tried: a function of the library and its arguments
LibCalls ==
    { [fn |-> "filter_options", args |-> <<o>>] : o \in OptionsArgs }
    \cup { [fn |-> "make_fstab_target", args |-> <<t, r>>] :
             t \in PathArgs, r \in PathArgs }
    \cup { [fn |-> "determine_pass_number", args |-> <<t, f>>] :
             t \in FstabTargetArgs, f \in FstypeArgs }
    \cup { [fn |-> "escape_fstab", args |-> <<s>>] :
             s \in Concats(PlainTokens, MaxTokens) }
    \cup { [fn |-> "unescape_findmnt", args |-> <<s>>] :
             s \in Concats(FindmntTokens, MaxTokens) }
    \cup { [fn |-> "unescape_proc_swaps", args |-> <<s>>] :
             s \in Concats(ProcSwapsTokens, MaxTokens) }
    \cup { [fn |-> "parse_mount_line", args |-> <<l>>] : l \in ParseLineArgs }
    \cup { [fn |-> "read_swaps", args |-> <<c>>] : c \in ReadSwapsArgs }
    \cup { [fn |-> f, args |-> <<[filename |-> p, swap_type |-> <<"f", "i", "l", "e">>], r>>] :
             f \in {"is_swap_under_root", "get_swap_target"},
             p \in SwapFileArgs, r \in NormalizedRootArgs }

\* call and ret hold the calls made so far and what each returned
InitLib ==
    /\ pc = "call"
    /\ root_path = <<>>
    /\ id_type = "Uuid"
    /\ RunStart
    /\ call \in { <<c>> : c \in LibCalls }
    /\ ret = <<>>

\* the call that is being made, or was made last
LastCall == call[Len(call)]

\* the call fn(args) returns value
Returns(fn, value) ==
    /\ pc = "call"
    /\ call /= <<>>
    /\ LastCall.fn = fn
    /\ ret' = Append(ret, value)
    /\ pc' = "returned"
    /\ UNCHANGED <<root_path, id_type, stderr, exit_status, root, root_str, mounts, i, seen_targets,
                   found_any, swaps, j, stdout, result, path_state, findmnt,
                   proc_swaps, blkid_calls, entries, call>>

\* the value returned is passed to fn
PassedTo(fn) ==
    /\ pc = "returned"
    /\ call' = Append(call, [fn |-> fn, args |-> <<ret[Len(ret)]>>])
    /\ pc' = "call"
    /\ UNCHANGED <<root_path, id_type, stderr, exit_status, root, root_str, mounts, i, seen_targets,
                   found_any, swaps, j, stdout, result, path_state, findmnt,
                   proc_swaps, blkid_calls, entries, ret>>

\* filter.rs 45-59
CallFilterOptions ==
    Returns("filter_options", filter_options(LastCall.args[1]))

\* fstab.rs 30-50
CallMakeFstabTarget ==
    Returns("make_fstab_target",
            make_fstab_target(LastCall.args[1], LastCall.args[2]))

\* fstab.rs 57-65
CallDeterminePassNumber ==
    Returns("determine_pass_number",
            determine_pass_number(LastCall.args[1], LastCall.args[2]))

\* fstab.rs 10-24
CallEscapeFstab ==
    Returns("escape_fstab", escape_fstab(LastCall.args[1]))

\* mount.rs 76-83
CallUnescapeFindmnt ==
    Returns("unescape_findmnt", unescape_findmnt(LastCall.args[1]))

\* swap.rs 75-107
CallUnescapeProcSwaps ==
    Returns("unescape_proc_swaps", unescape_proc_swaps(LastCall.args[1]))

\* mount.rs 42-70
CallParseMountLine ==
    Returns("parse_mount_line", parse_mount_line(LastCall.args[1]))

\* swap.rs 21-41
CallReadSwaps ==
    Returns("read_swaps", read_swaps(LastCall.args[1]))

\* swap.rs 130-145
CallIsSwapUnderRoot ==
    Returns("is_swap_under_root",
            is_swap_under_root(LastCall.args[1], LastCall.args[2]))

\* swap.rs 163-190
CallGetSwapTarget ==
    Returns("get_swap_target",
            get_swap_target(LastCall.args[1], LastCall.args[2]))

\* a text decoded from the mount table or the swap table is escaped for
\* fstab, as run does with a target (lib.rs 125) and print_swap_entries
\* with a filename (swap.rs 205)
EscapeUnescaped ==
    /\ Len(call) = 1
    /\ call[1].fn \in {"unescape_findmnt", "unescape_proc_swaps"}
    /\ PassedTo("escape_fstab")

\* a text escaped for fstab is decoded by the octal rule, which is the one
\* of fstab (swap.rs 72-74)
UnescapeEscaped ==
    /\ call /= <<>>
    /\ LastCall.fn = "escape_fstab"
    /\ PassedTo("unescape_proc_swaps")

NextLib ==
    \/ CallFilterOptions
    \/ CallMakeFstabTarget
    \/ CallDeterminePassNumber
    \/ CallEscapeFstab
    \/ CallUnescapeFindmnt
    \/ CallUnescapeProcSwaps
    \/ CallParseMountLine
    \/ CallReadSwaps
    \/ CallIsSwapUnderRoot
    \/ CallGetSwapTarget
    \/ EscapeUnescaped
    \/ UnescapeEscaped

SpecLib == InitLib /\ [][NextLib]_vars

\* runs of the program and calls of its library functions
InitAll == Init \/ InitLib

NextAll == Next \/ NextLib

SpecAll == InitAll /\ [][NextAll]_vars


(***************************************************************************)
(* Properties                                                              *)
(***************************************************************************)
\* the positions in entries of the blocks of the mount loop
MountEntries == { e \in 1..Len(entries) : entries[e].kind = "mount" }

\* the text of one logged entry block
EntryBlock(e) ==
    IF e.kind = "mount"
    THEN print_mount_entry(e.source, e.identifier, e.target, e.fstype,
                           e.options, e.pass)
    ELSE println(<<"#", " ">> \o e.source)
         \o println(escape_fstab(e.identifier) \o <<"\t">>
                    \o escape_fstab(e.target) \o <<"\t">> \o e.fstype
                    \o <<"\t">> \o e.options \o <<"\t", "0", "\t", "0">>)
         \o println(<<>>)

\* the text of a sequence of logged entry blocks
RECURSIVE EntryBlocks(_)
EntryBlocks(es) ==
    IF es = <<>> THEN <<>> ELSE EntryBlock(Head(es)) \o EntryBlocks(Tail(es))

\* findmnt was run and exited with status 0
FindmntSucceeded ==
    findmnt /= <<>> /\ findmnt[1].spawned /\ findmnt[1].success

\* C1: every line written to stdout that is neither empty nor begins with
\* '#' splits on whitespace into exactly six fields.
C1_SixFieldsPerLine ==
    \A k \in 1..Len(lines(stdout)) :
        LET line == lines(stdout)[k] IN
        (line /= <<>> /\ line[1] /= "#") => Len(split_whitespace(line)) = 6

\* C2: the mount-point fields of the mount entries emitted in one run are
\* pairwise distinct.
C2_DistinctFstabTargets ==
    \A a \in MountEntries : \A b \in MountEntries :
        a /= b => /\ entries[a].target /= entries[b].target
                  /\ escape_fstab(entries[a].target) /= escape_fstab(entries[b].target)

\* C3: once root validation and the findmnt query have succeeded, run
\* returns NoFilesystems (E006) if and only if no entry block was written,
\* and Ok if and only if at least one mount or swap block was written.
C3_NoFilesystemsIffNothingEmitted ==
    /\ (stdout = <<>>) <=> (entries = <<>>)
    /\ (pc = "done" /\ FindmntSucceeded) =>
         /\ (result.status = "Err" /\ code(result.code) = "E006")
              <=> stdout = <<>>
         /\ (result = Ok) <=> (Len(entries) >= 1)
         /\ result.status \in {"Ok", "Err"}

\* C3 witness: both tables had records, none survived, and run returned E006
C3_Witness ==
    /\ pc = "done"
    /\ FindmntSucceeded
    /\ mounts /= <<>>
    /\ swaps /= <<>>
    /\ stdout = <<>>
    /\ result = no_filesystems(root)

\* C4: the scan root is validated before anything else: the argument is
\* trimmed; empty once trimmed gives E001; a missing path gives E001 naming
\* the trimmed path; an existing non-directory gives E002; a directory that
\* cannot be canonicalized gives E003; and in each case findmnt is not run.
C4_RootValidatedFirst ==
    /\ findmnt /= <<>> =>
         /\ trim(root_path) /= <<>>
         /\ path_state /= <<>>
         /\ path_state[1].exists /\ path_state[1].is_dir
         /\ path_state[1].canonical /= <<>>
    /\ pc \notin {"validate", "call", "returned"} =>
         /\ root = trim(root_path)
         /\ trim(root_path) = <<>> =>
              /\ path_state = <<>>
              /\ pc = "done" /\ findmnt = <<>>
              /\ result.status = "Err" /\ code(result.code) = "E001"
         /\ trim(root_path) /= <<>> =>
              /\ path_state /= <<>>
              /\ ~path_state[1].exists =>
                   /\ pc = "done" /\ findmnt = <<>>
                   /\ result.status = "Err" /\ code(result.code) = "E001"
                   /\ find_str(result.message,
                               <<"'">> \o trim(root_path) \o <<"'">>) /= 0
              /\ (path_state[1].exists /\ ~path_state[1].is_dir) =>
                   /\ pc = "done" /\ findmnt = <<>>
                   /\ result.status = "Err" /\ code(result.code) = "E002"
              /\ (path_state[1].is_dir /\ path_state[1].canonical = <<>>) =>
                   /\ pc = "done" /\ findmnt = <<>>
                   /\ result.status = "Err" /\ code(result.code) = "E003"

\* C4 witness: run has returned E002 for an existing path that is no directory
C4_Witness ==
    /\ pc = "done"
    /\ path_state /= <<>>
    /\ path_state[1].exists /\ ~path_state[1].is_dir
    /\ root /= root_path
    /\ result = not_a_directory(root)

\* C5: with a valid root, findmnt that cannot be spawned gives E004 and
\* findmnt that exits non-zero gives E005; the run ends there: nothing is
\* written, /proc/swaps is not read and blkid is not run.
C5_FindmntFailureIsTerminal ==
    (findmnt /= <<>> /\ ~(findmnt[1].spawned /\ findmnt[1].success)) =>
        /\ pc = "done"
        /\ result.status = "Err"
        /\ code(result.code) = IF ~findmnt[1].spawned THEN "E004" ELSE "E005"
        /\ stdout = <<>>
        /\ entries = <<>>
        /\ proc_swaps = <<>>
        /\ blkid_calls = <<>>

\* C5 witness: findmnt exited non-zero after the root was validated
C5_Witness ==
    /\ pc = "done"
    /\ root_str /= <<>>
    /\ findmnt /= <<>>
    /\ findmnt[1].spawned /\ ~findmnt[1].success
    /\ result.code = "FindmntFailed"

\* /proc/swaps could not be read, or holds its header line and nothing else
NoSwapBody ==
    /\ proc_swaps /= <<>>
    /\ \/ proc_swaps[1] = <<>>
       \/ proc_swaps[1] = <<SwapHeader \o <<"\n">>>>

\* C6: an unreadable swap table is not an error: the run then has the
\* records, the output and the result of a run whose swap table has no body
\* lines, which are those of the mount loop alone (Ok if a mount entry was
\* emitted, otherwise E006).
C6_UnreadableSwapsAsEmpty ==
    NoSwapBody =>
        /\ swaps = <<>>
        /\ MountEntries = 1..Len(entries)
        /\ stdout = EntryBlocks(entries)
        /\ pc \in {"swap_loop", "done"}
        /\ pc = "done" =>
             result = IF entries = <<>> THEN no_filesystems(root) ELSE Ok

\* C6 witness: /proc/swaps was unreadable and run returned Ok
C6_Witness ==
    /\ pc = "done"
    /\ proc_swaps = << <<>> >>
    /\ entries /= <<>>
    /\ result = Ok

\* target is root, or root followed by "/" and anything, or root is "/"
UnderRoot(target, r) ==
    \/ r = <<"/">>
    \/ /\ Len(target) >= Len(r)
       /\ \A k \in 1..Len(r) : target[k] = r[k]
       /\ Len(target) > Len(r) => target[Len(r) + 1] = "/"

\* C7: is_under_root holds exactly when root is "/", or target equals root,
\* or target begins with root followed by "/"; run emits no mount entry for
\* a target that only shares a string prefix with the root.
C7_UnderRootNeedsSeparator ==
    /\ \A k \in 1..Len(mounts) :
         is_under_root(mounts[k].target, root_str)
           <=> UnderRoot(mounts[k].target, root_str)
    /\ \A e \in MountEntries :
         /\ UnderRoot(mounts[entries[e].index].target, root_str)
         /\ root_str = <<"/", "m", "n", "t">> =>
              mounts[entries[e].index].target /= <<"/", "m", "n", "t", "2">>

\* C7 witness: the table held /mnt2, the root was /mnt, and the run is over
\* with an entry emitted
C7_Witness ==
    /\ pc = "done"
    /\ root_str = <<"/", "m", "n", "t">>
    /\ \E k \in 1..Len(mounts) : mounts[k].target = <<"/", "m", "n", "t", "2">>
    /\ MountEntries /= {}

\* C8: run emits no mount entry whose fstype is in the pseudo-filesystem
\* set; the match is exact, so a record under the root whose fstype is not
\* in the set (ntfs3, TMPFS) is not dropped by this filter: its target is
\* emitted.
C8_PseudoFilesystemsExcludedExactly ==
    /\ \A e \in MountEntries : entries[e].fstype \notin PSEUDO_FILESYSTEMS
    /\ pc \in {"swap_loop", "done"} =>
         \A k \in 1..Len(mounts) :
           (/\ UnderRoot(mounts[k].target, root_str)
            /\ mounts[k].fstype \notin PSEUDO_FILESYSTEMS)
           => \E e \in MountEntries :
                mounts[entries[e].index].target = mounts[k].target

\* C8 witness: a TMPFS record was emitted in a run whose table also held an
\* autofs record under the root
C8_Witness ==
    /\ pc = "done"
    /\ \E e \in MountEntries : entries[e].fstype = <<"T", "M", "P", "F", "S">>
    /\ \E k \in 1..Len(mounts) :
         /\ mounts[k].fstype = <<"a", "u", "t", "o", "f", "s">>
         /\ UnderRoot(mounts[k].target, root_str)

\* record k of the mount table passes the root and pseudo-filesystem filters
PassesFilters(k) ==
    /\ UnderRoot(mounts[k].target, root_str)
    /\ mounts[k].fstype \notin PSEUDO_FILESYSTEMS

\* record k is the first record with its target that passes the filters
FirstWithTarget(k) ==
    /\ PassesFilters(k)
    /\ \A m \in 1..(k - 1) :
         PassesFilters(m) => mounts[m].target /= mounts[k].target

\* C9: of the records that pass the root and pseudo-filesystem filters and
\* share a target, exactly the first in table order is emitted; a later one
\* writes nothing, is no error and leaves the other entries as they are.
C9_FirstRecordOfTargetWins ==
    pc \in {"mount_loop", "swap_loop", "done"} =>
        /\ { entries[e].index : e \in MountEntries }
             = { k \in 1..(i - 1) : FirstWithTarget(k) }
        /\ \A a \in MountEntries : \A b \in MountEntries :
             a < b => entries[a].index < entries[b].index
        /\ \A e \in MountEntries :
             /\ entries[e].source = mounts[entries[e].index].source
             /\ entries[e].fstype = mounts[entries[e].index].fstype
             /\ entries[e].options = filter_options(mounts[entries[e].index].options)
        /\ stdout = EntryBlocks(entries)
        /\ (pc = "done" /\ \E k \in 1..Len(mounts) : PassesFilters(k)) =>
             result = Ok

\* C9 witness: two records with one target and different sources passed the
\* filters, and the run is over with the first of them emitted
C9_Witness ==
    /\ pc = "done"
    /\ \E a \in 1..Len(mounts) : \E b \in 1..Len(mounts) :
         /\ a < b
         /\ PassesFilters(a) /\ PassesFilters(b)
         /\ mounts[a].target = mounts[b].target
         /\ mounts[a].source /= mounts[b].source
         /\ \E e \in MountEntries : entries[e].index = a

\* the source of the call begins with one of the four tag prefixes
CallSourceIsTagged ==
    /\ call /= <<>>
    /\ \E p \in TagPrefixes :
         /\ Len(call[1].source) >= Len(p)
         /\ \A k \in 1..Len(p) : call[1].source[k] = p[k]

\* C10: for a source that begins with UUID=, LABEL=, PARTUUID= or
\* PARTLABEL=, get_device_identifier returns the source unchanged whatever
\* identifier kind is asked for, and does not run blkid.
C10_TaggedSourcePreserved ==
    (pc = "returned" /\ CallSourceIsTagged) =>
        /\ ret = <<call[1].source>>
        /\ blkid_calls = <<>>

\* C10 witness: a PARTLABEL= source naming a device path was resolved with
\* the UUID kind asked for
C10_Witness ==
    /\ pc = "returned"
    /\ id_type = "Uuid"
    /\ call[1].source = <<"P", "A", "R", "T", "L", "A", "B", "E", "L", "=", "/", "d", "e", "v", "/", "s", "d", "a", "1">>
    /\ ret /= <<>>

\* the source of the call has no '[' and none of the four tag prefixes
CallSourceIsPlain ==
    /\ call /= <<>>
    /\ ~CallSourceIsTagged
    /\ \A k \in 1..Len(call[1].source) : call[1].source[k] /= "["

\* the blkid of the call ran, exited with status 0 and printed a value
\* that is not blank
CallLookupSucceeds ==
    /\ call[1].blkid.spawned
    /\ call[1].blkid.success
    /\ \E k \in 1..Len(call[1].blkid.stdout) :
         ~is_whitespace(call[1].blkid.stdout[k])

\* the source of the call begins with /dev/
CallSourceIsDev ==
    /\ Len(call[1].source) >= 5
    /\ SubSeq(call[1].source, 1, 5) = <<"/", "d", "e", "v", "/">>

\* what is returned for a plain source: the tag of the kind asked for and
\* the value found, when the source is a /dev/ path and the lookup
\* succeeds; otherwise the source; and never the tag of another kind
PlainSourceResolved ==
    /\ \/ ret[1] = call[1].source
       \/ /\ CallSourceIsDev
          /\ CallLookupSucceeds
          /\ ret[1] = blkid_tag(id_type) \o <<"=">> \o trim(call[1].blkid.stdout)
          /\ Len(ret[1]) > Len(blkid_tag(id_type)) + 1
    /\ \A k \in IdType \ {id_type} :
         ~starts_with(ret[1], blkid_tag(k) \o <<"=">>)
    /\ ~CallLookupSucceeds => ret[1] = call[1].source
    /\ (CallSourceIsDev /\ CallLookupSucceeds) => ret[1] /= call[1].source

Returned(fn) ==
    /\ pc \in {"call", "returned"}
    /\ call /= <<>>
    /\ call[1].fn = fn
    /\ ret /= <<>>

\* the positions of s at which a comma-separated token begins
TokenStarts(s) == { k \in 1..(Len(s) + 1) : k = 1 \/ s[k - 1] = "," }

\* the token of s that begins at position a
TokenAt(s, a) ==
    LET ends == { b \in a..(Len(s) + 1) : b = Len(s) + 1 \/ s[b] = "," }
        b == CHOOSE e \in ends : \A f \in ends : e <= f
    IN SubSeq(s, a, b - 1)

\* t without the whitespace at its ends
Stripped(t) ==
    LET ks == { k \in 1..Len(t) : ~is_whitespace(t[k]) } IN
    IF ks = {} THEN <<>>
    ELSE SubSeq(t, CHOOSE a \in ks : \A k \in ks : a <= k,
                   CHOOSE b \in ks : \A k \in ks : k <= b)

\* t begins with p
BeginsWith(t, p) == Len(t) >= Len(p) /\ SubSeq(t, 1, Len(p)) = p

\* the trimmed token t is one that fstab keeps
Survives(t) ==
    /\ t /= <<>>
    /\ t \notin { <<"l", "a", "z", "y", "t", "i", "m", "e">>,
                  <<"n", "o", "a", "t", "i", "m", "e">>,
                  <<"r", "e", "l", "a", "t", "i", "m", "e">>,
                  <<"r", "o">>, <<"r", "w">>,
                  <<"s", "e", "c", "l", "a", "b", "e", "l">> }
    /\ ~BeginsWith(t, <<"s", "u", "b", "v", "o", "l", "i", "d", "=">>)

\* where the surviving tokens of s begin
SurvivorStarts(s) ==
    { a \in TokenStarts(s) : Survives(Stripped(TokenAt(s, a))) }

\* the trimmed tokens of s that begin at the positions as, in the order of
\* s, with a comma between them
RECURSIVE CommaJoined(_, _)
CommaJoined(s, as) ==
    IF as = {} THEN <<>>
    ELSE LET a == CHOOSE x \in as : \A y \in as : x <= y IN
         Stripped(TokenAt(s, a))
         \o (IF as = {a} THEN <<>> ELSE <<",">> \o CommaJoined(s, as \ {a}))

\* C12: filter_options returns the comma-join, in the original order, of
\* the trimmed tokens of its input that are non-empty, are not one of
\* lazytime, noatime, relatime, ro, rw, seclabel and do not begin with
\* "subvolid=", and "defaults" if there is none; the result is never empty,
\* has no leading, trailing or doubled comma, and keeps subvol=... and
\* x-systemd.* tokens.
C12_FilterOptionsKeepsSurvivors ==
    Returned("filter_options") =>
        LET options == call[1].args[1]
            r == ret[1]
        IN /\ r = IF SurvivorStarts(options) = {}
                  THEN <<"d", "e", "f", "a", "u", "l", "t", "s">>
                  ELSE CommaJoined(options, SurvivorStarts(options))
           /\ r /= <<>>
           /\ r[1] /= ","
           /\ r[Len(r)] /= ","
           /\ \A k \in 1..(Len(r) - 1) : ~(r[k] = "," /\ r[k + 1] = ",")
           /\ \A a \in TokenStarts(options) :
                LET t == Stripped(TokenAt(options, a)) IN
                (\/ BeginsWith(t, <<"s", "u", "b", "v", "o", "l", "=">>)
                 \/ BeginsWith(t, <<"x", "-", "s", "y", "s", "t", "e", "m", "d", ".">>))
                => \E b \in TokenStarts(r) : TokenAt(r, b) = t

\* C12 witness: ",subvolid=5,subvol=/@" was filtered to "subvol=/@"
C12_Witness ==
    /\ Returned("filter_options")
    /\ call[1].args[1] = <<",", "s", "u", "b", "v", "o", "l", "i", "d", "=", "5", ",", "s", "u", "b", "v", "o", "l", "=", "/", "@">>
    /\ ret[1] = <<"s", "u", "b", "v", "o", "l", "=", "/", "@">>


\* target without root at its beginning when it begins with root,
\* otherwise target
Remainder(target, r) ==
    IF BeginsWith(target, r) THEN SubSeq(target, Len(r) + 1, Len(target))
    ELSE target

\* the mount point the claim gives to target under the root r
MountPointOf(target, r) ==
    IF target = <<>> \/ target = r THEN <<"/">>
    ELSE IF Remainder(target, r) = <<>> THEN <<"/">>
    ELSE IF Remainder(target, r)[1] = "/" THEN Remainder(target, r)
    ELSE <<"/">> \o Remainder(target, r)

\* C13: make_fstab_target(target, root) is "/" when target is empty or
\* equals root, and otherwise target with the root prefix stripped, with
\* "/" prepended when what remains does not begin with "/", and "/" when
\* nothing remains; the result always begins with "/", and in every run
\* the record whose target is the scan root is emitted with mount point "/".
C13_FstabTargetIsRootRelative ==
    /\ Returned("make_fstab_target") =>
         /\ ret[1] = MountPointOf(call[1].args[1], call[1].args[2])
         /\ ret[1] /= <<>>
         /\ ret[1][1] = "/"
    /\ \A e \in MountEntries :
         /\ entries[e].target
              = MountPointOf(mounts[entries[e].index].target, root_str)
         /\ entries[e].target[1] = "/"
         /\ mounts[entries[e].index].target = root_str
              => entries[e].target = <<"/">>
    /\ pc \in {"swap_loop", "done"} =>
         \A k \in 1..Len(mounts) :
           (mounts[k].target = root_str
            /\ mounts[k].fstype \notin PSEUDO_FILESYSTEMS)
           => \E e \in MountEntries :
                /\ mounts[entries[e].index].target = root_str
                /\ entries[e].target = <<"/">>

\* C13 witness: a run under /mnt has emitted the root mount as "/" and the
\* mount at "/mnt/a b" as "/a b"
C13_Witness ==
    /\ pc = "done"
    /\ root_str = <<"/", "m", "n", "t">>
    /\ \E e \in MountEntries :
         /\ mounts[entries[e].index].target = root_str
         /\ entries[e].target = <<"/">>
    /\ \E e \in MountEntries :
         /\ mounts[entries[e].index].target = <<"/", "m", "n", "t", "/", "a", " ", "b">>
         /\ entries[e].target = <<"/", "a", " ", "b">>

\* the pass number the claim gives to a normalized target and a fstype
PassOf(fstab_target, fstype) ==
    IF fstab_target = <<"/">> THEN 1
    ELSE IF fstype \in { <<"e", "x", "t", "2">>, <<"e", "x", "t", "3">>,
                         <<"e", "x", "t", "4">>, <<"x", "f", "s">>,
                         <<"f", "2", "f", "s">> } THEN 2
    ELSE 0

\* C14: determine_pass_number(fstab_target, fstype) is 1 when fstab_target
\* is "/", whatever the fstype; otherwise 2 exactly when fstype is one of
\* ext2, ext3, ext4, xfs, f2fs; otherwise 0 (so btrfs and vfat away from
\* "/" get 0); and the pass field of every emitted mount entry is this
\* function of its normalized target and its fstype.
C14_PassNumberByTargetAndFstype ==
    /\ Returned("determine_pass_number") =>
         /\ ret[1] = PassOf(call[1].args[1], call[1].args[2])
         /\ (call[1].args[1] /= <<"/">>
             /\ call[1].args[2] \in { <<"b", "t", "r", "f", "s">>,
                                      <<"v", "f", "a", "t">> })
            => ret[1] = 0
    /\ \A e \in MountEntries :
         /\ entries[e].pass = PassOf(entries[e].target, entries[e].fstype)
         /\ entries[e].pass = PassOf(MountPointOf(mounts[entries[e].index].target, root_str),
                                     mounts[entries[e].index].fstype)
    /\ (entries /= <<>> /\ entries[Len(entries)].kind = "mount") =>
         /\ Len(stdout) >= 6
         /\ SubSeq(stdout, Len(stdout) - 5, Len(stdout))
              = <<"\t", "0", "\t",
                  pass_digit(PassOf(entries[Len(entries)].target,
                                    entries[Len(entries)].fstype)),
                  "\n", "\n">>

\* C14 witness: a run under / has emitted an ext4 mount at /mnt with pass 2
\* and a vfat mount at /mnt2 with pass 0
C14_Witness ==
    /\ pc = "done"
    /\ root_str = <<"/">>
    /\ \E e \in MountEntries :
         /\ entries[e].fstype = <<"e", "x", "t", "4">>
         /\ entries[e].target = <<"/", "m", "n", "t">>
         /\ entries[e].pass = 2
    /\ \E e \in MountEntries :
         /\ entries[e].fstype = <<"v", "f", "a", "t">>
         /\ entries[e].target = <<"/", "m", "n", "t", "2">>
         /\ entries[e].pass = 0


\* the positions of s that hold a character fstab needs escaped
Special(s) ==
    { k \in 1..Len(s) : s[k] \in {" ", "\t", "\n", "\r", "\\", "#"} }

\* the three octal digits that stand for such a character
OctalCode(c) ==
    CASE c = " " -> <<"0", "4", "0">>
      [] c = "\t" -> <<"0", "1", "1">>
      [] c = "\n" -> <<"0", "1", "2">>
      [] c = "\r" -> <<"0", "1", "5">>
      [] c = "\\" -> <<"1", "3", "4">>
      [] c = "#" -> <<"0", "4", "3">>

\* r is s with each special character replaced by a backslash and its
\* octal code, and every other character copied
EscapedAs(s, r) ==
    /\ Len(r) = Len(s) + 3 * Cardinality(Special(s))
    /\ \A m \in 1..Len(s) :
         LET p == m + 3 * Cardinality({ q \in Special(s) : q < m }) IN
         IF m \in Special(s)
         THEN SubSeq(r, p, p + 3) = <<"\\">> \o OctalCode(s[m])
         ELSE r[p] = s[m]

\* C15: escape_fstab replaces every space, tab, LF, CR, backslash and '#'
\* with \040, \011, \012, \015, \134 and \043 and copies every other
\* character, non-ASCII included; so its output holds no space, tab, LF, CR
\* or '#', and every backslash in it is followed by three octal digits.
C15_EscapeFstabOctal ==
    \A k \in 1..Len(ret) :
        call[k].fn = "escape_fstab" =>
            /\ EscapedAs(call[k].args[1], ret[k])
            /\ \A p \in 1..Len(ret[k]) :
                 /\ ret[k][p] \notin {" ", "\t", "\n", "\r", "#"}
                 /\ ret[k][p] = "\\" =>
                      /\ p + 3 <= Len(ret[k])
                      /\ \A d \in 1..3 :
                           ret[k][p + d] \in {"0", "1", "2", "3", "4", "5", "6", "7"}

\* C15 witness: escape_fstab was called with '#' and U+00E9 and returned
\* \043 and U+00E9
C15_Witness ==
    /\ Returned("escape_fstab")
    /\ call[1].args[1] = <<"#", "xE9">>
    /\ ret[1] = <<"\\", "0", "4", "3", "xE9">>

\* C16: a text produced by unescape_findmnt or unescape_proc_swaps, once
\* escaped by escape_fstab, is decoded back to itself by the octal rule of
\* unescape_proc_swaps, also when it holds backslashes followed by digits.
C16_EscapeRoundTrip ==
    \A k \in 2..Len(ret) :
        (/\ call[k].fn = "unescape_proc_swaps"
         /\ call[k - 1].fn = "escape_fstab"
         /\ k >= 3)
        => /\ call[k - 2].fn \in {"unescape_findmnt", "unescape_proc_swaps"}
           /\ call[k - 1].args[1] = ret[k - 2]
           /\ call[k].args[1] = ret[k - 1]
           /\ ret[k] = ret[k - 2]

\* C16 witness: unescape_findmnt has decoded \x5c040 to a backslash and
\* 040, which went through escape_fstab and came back
C16_Witness ==
    /\ pc = "returned"
    /\ Len(ret) = 3
    /\ call[1].fn = "unescape_findmnt"
    /\ call[1].args[1] = <<"\\", "x", "5", "c", "0", "4", "0">>
    /\ ret[1] = <<"\\", "0", "4", "0">>
    /\ ret[2] = <<"\\", "1", "3", "4", "0", "4", "0">>
    /\ ret[3] = <<"\\", "0", "4", "0">>


\* the positions in entries of the blocks of the swap loop
SwapEntries == { e \in 1..Len(entries) : entries[e].kind = "swap" }

\* the identifiers get_device_identifier can return for a source and the
\* kind asked for, over what blkid may do
Resolutions(source) ==
    { get_device_identifier(source, blkid_tag(id_type), b).id :
        b \in BlkidOutcomes }

\* C17: of the swap records that reach output, a block-device swap
\* (filename beginning with /dev/) qualifies under every scan root, has
\* mount point "none" and the identifier that get_device_identifier gives
\* its filename; a swap file qualifies only if its path is under the scan
\* root, and has its path as identifier and its root-relative path as
\* mount point; every swap entry line has fstype swap, options defaults,
\* dump 0 and pass 0.
C17_SwapEntriesByKind ==
    /\ \A e \in SwapEntries :
         LET swap == swaps[entries[e].index] IN
         /\ entries[e].source = swap.filename
         /\ entries[e].fstype = <<"s", "w", "a", "p">>
         /\ entries[e].options = <<"d", "e", "f", "a", "u", "l", "t", "s">>
         /\ IF BeginsWith(swap.filename, <<"/", "d", "e", "v", "/">>)
            THEN /\ entries[e].target = <<"n", "o", "n", "e">>
                 /\ entries[e].identifier \in Resolutions(swap.filename)
                 /\ \/ entries[e].identifier = swap.filename
                    \/ BeginsWith(entries[e].identifier,
                                  blkid_tag(id_type) \o <<"=">>)
            ELSE /\ UnderRoot(swap.filename, root_str)
                 /\ entries[e].identifier = swap.filename
                 /\ entries[e].target = MountPointOf(swap.filename, root_str)
    /\ pc = "done" =>
         \A k \in 1..Len(swaps) :
           BeginsWith(swaps[k].filename, <<"/", "d", "e", "v", "/">>)
           => \E e \in SwapEntries : entries[e].index = k
    /\ (entries /= <<>> /\ entries[Len(entries)].kind = "swap") =>
         LET e == entries[Len(entries)]
             block == <<"#", " ">> \o e.source \o <<"\n">>
                      \o escape_fstab(e.identifier) \o <<"\t">>
                      \o escape_fstab(e.target)
                      \o <<"\t", "s", "w", "a", "p", "\t", "d", "e", "f", "a", "u", "l", "t", "s", "\t", "0", "\t", "0", "\n", "\n">>
         IN /\ Len(stdout) >= Len(block)
            /\ SubSeq(stdout, Len(stdout) - Len(block) + 1, Len(stdout)) = block

\* C17 witness: under /mnt, the swap partition /dev/a3 was emitted with the
\* UUID found for it and mount point none
C17_Witness ==
    /\ pc = "done"
    /\ root_str = <<"/", "m", "n", "t">>
    /\ id_type = "Uuid"
    /\ \E e \in SwapEntries :
         /\ entries[e].source = <<"/", "d", "e", "v", "/", "a", "3">>
         /\ entries[e].identifier = <<"U", "U", "I", "D", "=", "a", "b", "c", "d", "-", "1", "2", "3", "4">>
         /\ entries[e].target = <<"n", "o", "n", "e">>


\* swap record k is one that print_swap_entries prints: a block device, or
\* a file under the scan root
Qualifies(k) ==
    \/ BeginsWith(swaps[k].filename, <<"/", "d", "e", "v", "/">>)
    \/ UnderRoot(swaps[k].filename, root_str)

\* the blocks written so far are those of the surviving mount records in
\* table order, then those of the qualifying swap records in table order,
\* and nothing else was written
BlocksInTableOrder ==
    /\ stdout = EntryBlocks(entries)
    /\ \A a \in MountEntries : \A b \in SwapEntries : a < b
    /\ \A a \in 1..Len(entries) : \A b \in 1..Len(entries) :
         (a < b /\ entries[a].kind = entries[b].kind)
         => entries[a].index < entries[b].index
    /\ pc \in {"mount_loop", "swap_loop", "done"} =>
         /\ { entries[e].index : e \in MountEntries }
              = { k \in 1..(i - 1) : FirstWithTarget(k) }
         /\ { entries[e].index : e \in SwapEntries }
              = { k \in 1..(j - 1) : Qualifies(k) }
    /\ pc = "mount_loop" => SwapEntries = {}
    /\ (pc = "done" /\ result = Ok) =>
         /\ i = Len(mounts) + 1
         /\ j = Len(swaps) + 1
         /\ Len(stdout) >= 2
         /\ SubSeq(stdout, Len(stdout) - 1, Len(stdout)) = <<"\n", "\n">>

\* every line of stdout that is neither empty nor a comment has 0 as its
\* fifth field and 0, 1 or 2 as its sixth
DumpAndPassFields ==
    \A k \in 1..Len(lines(stdout)) :
        LET line == lines(stdout)[k]
            fields == split_whitespace(line)
        IN (line /= <<>> /\ line[1] /= "#") =>
             /\ Len(fields) >= 6
             /\ fields[5] = <<"0">>
             /\ fields[6] \in { <<"0">>, <<"1">>, <<"2">> }

\* C18: the output of a run is a sequence of entry blocks: one per
\* surviving mount record in mount-table order, then one per qualifying
\* swap record in swap-table order, no swap block before a mount block;
\* every entry line has dump field 0 and a pass field in {0, 1, 2}; and
\* nothing is written after the blank line of the last block.
C18_BlocksInOrderWithDumpAndPass ==
    /\ BlocksInTableOrder
    /\ DumpAndPassFields


\* the run of the end-to-end example: scan root /mnt, the mount table is
\* the single line "/mnt /dev/sda1 ext4 rw,relatime", there are no swap
\* entries, the UUID kind is asked for and the lookup for /dev/sda1
\* returned UUID=abcd-1234
EndToEndRun ==
    /\ root_str = <<"/", "m", "n", "t">>
    /\ id_type = "Uuid"
    /\ FindmntSucceeded
    /\ findmnt[1].stdout = <<"/", "m", "n", "t", " ", "/", "d", "e", "v", "/", "s", "d", "a", "1", " ", "e", "x", "t", "4", " ", "r", "w", ",", "r", "e", "l", "a", "t", "i", "m", "e">> \o <<"\n">>
    /\ NoSwapBody
    /\ blkid_calls = << [device |-> <<"/", "d", "e", "v", "/", "s", "d", "a", "1">>, tag |-> <<"U", "U", "I", "D">>,
                         found |-> << <<"U", "U", "I", "D", "=", "a", "b", "c", "d", "-", "1", "2", "3", "4">> >>] >>

\* C19: in that run, run returns Ok and writes exactly three lines:
\* "# /dev/sda1", "UUID=abcd-1234<TAB>/<TAB>ext4<TAB>defaults<TAB>0<TAB>1"
\* and an empty line.
C19_EndToEndBlock ==
    (pc = "done" /\ EndToEndRun) =>
        /\ result = Ok
        /\ stdout = <<"#", " ", "/", "d", "e", "v", "/", "s", "d", "a", "1">>
                    \o <<"\n">> \o <<"U", "U", "I", "D", "=", "a", "b", "c", "d", "-", "1", "2", "3", "4", "\t", "/", "\t", "e", "x", "t", "4", "\t", "d", "e", "f", "a", "u", "l", "t", "s", "\t", "0", "\t", "1">>
                    \o <<"\n", "\n">>
        /\ Len(lines(stdout)) = 3
        /\ lines(stdout)[3] = <<>>

\* C19 witness: that run is over
C19_Witness ==
    /\ pc = "done"
    /\ EndToEndRun
    /\ stdout /= <<>>


\* C20: the binary exits with status 0 only when at least one entry was
\* emitted; run on an existing directory under which no mount or swap
\* entry survives, it exits non-zero and reports the numbered error E006
\* ("no filesystems found") on the error stream.
C20_ExitZeroOnlyWithEntries ==
    /\ exit_status = <<0>> =>
         /\ entries /= <<>>
         /\ stdout /= <<>>
    /\ (/\ pc = "exited"
        /\ path_state /= <<>>
        /\ path_state[1].exists /\ path_state[1].is_dir
        /\ path_state[1].canonical /= <<>>
        /\ FindmntSucceeded
        /\ entries = <<>>)
       => /\ exit_status /= <<>>
          /\ exit_status /= <<0>>
          /\ find_str(stderr, <<"E", "0", "0", "6", ":">>) /= 0
          /\ find_str(stderr, <<"n", "o", " ", "f", "i", "l", "e", "s", "y", "s", "t", "e", "m", "s", " ", "f", "o", "u", "n", "d">>) /= 0


\* the source of the call is empty or begins with '[', so that the device
\* part of it is empty
CallDeviceIsEmpty ==
    /\ call /= <<>>
    /\ \/ call[1].source = <<>>
       \/ call[1].source[1] = "["

FindmntEscape(q) ==
    CASE q = <<"\\", "x", "2", "0">> -> <<" ">>
      [] q = <<"\\", "x", "0", "9">> -> <<"\t">>
      [] q = <<"\\", "x", "0", "a">> -> <<"\n">>
      [] q = <<"\\", "x", "0", "d">> -> <<"\r">>
      [] q = <<"\\", "x", "5", "c">> -> <<"\\">>
      [] OTHER -> <<>>

\* s decoded in one pass from left to right: a sequence that stands for a
\* character is replaced by it and the pass goes on after the sequence,
\* every other character is copied
RECURSIVE LeftToRightDecoded(_)
LeftToRightDecoded(s) ==
    IF s = <<>> THEN <<>>
    ELSE IF Len(s) >= 4 /\ FindmntEscape(SubSeq(s, 1, 4)) /= <<>>
         THEN FindmntEscape(SubSeq(s, 1, 4))
              \o LeftToRightDecoded(SubSeq(s, 5, Len(s)))
         ELSE <<s[1]>> \o LeftToRightDecoded(Tail(s))

\* s ends with t
EndsWith(s, t) ==
    /\ Len(s) >= Len(t)
    /\ SubSeq(s, Len(s) - Len(t) + 1, Len(s)) = t

\* C22: unescape_findmnt returns what a single left-to-right decoder of
\* \x20, \x09, \x0a, \x0d and \x5c returns: a backslash decoded from \x5c is
\* never combined with the text after it (\x5cx20 gives backslash, x, 2, 0),
\* and a trailing \x or \x2 is left unchanged.
C22_UnescapeFindmntSinglePass ==
    \A k \in 1..Len(ret) :
        call[k].fn = "unescape_findmnt" =>
            /\ ret[k] = LeftToRightDecoded(call[k].args[1])
            /\ \A t \in { <<"\\", "x">>, <<"\\", "x", "2">> } :
                 EndsWith(call[k].args[1], t) => EndsWith(ret[k], t)
            /\ call[k].args[1] = <<"\\", "x", "5", "c", "x", "2", "0">>
                 => ret[k] = <<"\\", "x", "2", "0">>

\* C22 witness: unescape_findmnt was called with \x5cx20 and returned
\* backslash, x, 2, 0
C22_Witness ==
    /\ Returned("unescape_findmnt")
    /\ call[1].args[1] = <<"\\", "x", "5", "c", "x", "2", "0">>
    /\ ret[1] = <<"\\", "x", "2", "0">>



\* the number that three octal digits stand for
TripletValue(d) ==
    64 * octal_value(d[1]) + 8 * octal_value(d[2]) + octal_value(d[3])

\* s begins with a backslash and three octal digits that stand for a number
\* up to max
BeginsWithTriplet(s, max) ==
    /\ Len(s) >= 4
    /\ s[1] = "\\"
    /\ \A d \in 2..4 : s[d] \in {"0", "1", "2", "3", "4", "5", "6", "7"}
    /\ TripletValue(SubSeq(s, 2, 4)) <= max

\* the character whose value is v; the characters above U+00FF are not
\* told apart
CharOfValue(v) == IF v <= 255 THEN byte_chars[v + 1] ELSE "above_xFF"

\* s with every backslash and three octal digits that stand for a number up
\* to max replaced by the character of that value, from left to right, and
\* every other character copied
RECURSIVE TripletsDecoded(_, _)
TripletsDecoded(s, max) ==
    IF s = <<>> THEN <<>>
    ELSE IF BeginsWithTriplet(s, max)
         THEN <<CharOfValue(TripletValue(SubSeq(s, 2, 4)))>>
              \o TripletsDecoded(SubSeq(s, 5, Len(s)), max)
         ELSE <<s[1]>> \o TripletsDecoded(Tail(s), max)

\* C23 as stated: unescape_proc_swaps replaces every backslash followed by
\* three octal digits with the character whose value is that octal number,
\* for every such triplet, and leaves every other character as literal
\* text, a backslash with fewer than three octal digits included.
C23_EveryOctalTripletDecoded ==
    \A k \in 1..Len(ret) :
        call[k].fn = "unescape_proc_swaps" =>
            ret[k] = TripletsDecoded(call[k].args[1], 511)

\* C23 amended: unescape_proc_swaps replaces every backslash followed by
\* three octal digits that stand for a value up to 255 (\000 to \377) with
\* the character of that value, and leaves every other character as literal
\* text: a backslash with fewer than three octal digits and those digits,
\* and a backslash with three octal digits from \400 to \777.
C23_ByteOctalTripletDecoded ==
    \A k \in 1..Len(ret) :
        call[k].fn = "unescape_proc_swaps" =>
            ret[k] = TripletsDecoded(call[k].args[1], 255)

\* C23 witness: unescape_proc_swaps was called with \040\777 and returned a
\* space and the text \777
C23_Witness ==
    /\ Returned("unescape_proc_swaps")
    /\ call[1].args[1] = <<"\\", "0", "4", "0", "\\", "7", "7", "7">>
    /\ ret[1] = <<" ", "\\", "7", "7", "7">>



\* the positions of the single spaces of t
Spaces(t) == { k \in 1..Len(t) : t[k] = " " }

\* the n-th space of t, counted from the left
NthSpace(t, n) ==
    CHOOSE p \in Spaces(t) : Cardinality({ q \in Spaces(t) : q <= p }) = n

\* the record that a line of the mount table stands for, as an Option: the
\* line without the whitespace at its ends is cut at its first three
\* spaces, the first and second field are decoded, the third and fourth
\* taken as they are; no record for fewer than four fields, or an empty
\* target or fstype
RecordOfLine(line) ==
    LET t == Stripped(line) IN
    IF Cardinality(Spaces(t)) < 3 THEN <<>>
    ELSE LET a == NthSpace(t, 1)
             b == NthSpace(t, 2)
             c == NthSpace(t, 3)
         IN IF a = 1 \/ c = b + 1 THEN <<>>
            ELSE << [target |-> LeftToRightDecoded(SubSeq(t, 1, a - 1)),
                     source |-> LeftToRightDecoded(SubSeq(t, a + 1, b - 1)),
                     fstype |-> SubSeq(t, b + 1, c - 1),
                     options |-> SubSeq(t, c + 1, Len(t))] >>

\* the lines of the table that findmnt printed
TableLines == lines(findmnt[1].stdout)

\* the positions in the table of the lines that parse
ParsedLines == { k \in 1..Len(TableLines) : RecordOfLine(TableLines[k]) /= <<>> }

\* C24: parse_mount_line trims the line, splits it at the first three single
\* spaces only, unescapes only target and source, and yields no record for
\* an empty line, fewer than four fields, or an empty target or fstype;
\* get_mounts returns exactly the records of the lines that parse, in table
\* order, whatever the other lines are (mounts is looked at when get_mounts
\* has just returned; run never assigns it again).
C24_ParseMountLinesIndependently ==
    /\ \A k \in 1..Len(ret) :
         call[k].fn = "parse_mount_line" =>
             ret[k] = RecordOfLine(call[k].args[1])
    /\ (pc = "mount_loop" /\ i = 1 /\ FindmntSucceeded) =>
           /\ Len(mounts) = Cardinality(ParsedLines)
           /\ \A k \in ParsedLines :
                mounts[Cardinality({ q \in ParsedLines : q <= k })]
                  = RecordOfLine(TableLines[k])[1]

\* C24 witness: get_mounts has returned the one record of a table whose
\* first line has two fields and whose second line has escaped fields and
\* options with a space
C24_Witness ==
    /\ pc = "mount_loop"
    /\ FindmntSucceeded
    /\ Len(TableLines) = 2
    /\ TableLines[1] = <<"/", "m", "n", "t", " ", "/", "d", "e", "v", "/", "s", "d", "a", "1">>
    /\ Len(mounts) = 1
    /\ mounts[1].target = <<"/", "m", "n", "t", "/">>
    /\ mounts[1].options = <<"r", "w", ",", "a", " ", "b">>



\* the positions of t at which a whitespace-separated field begins
FieldStarts(t) ==
    { k \in 1..Len(t) : ~is_whitespace(t[k]) /\ (k = 1 \/ is_whitespace(t[k - 1])) }

\* the n-th whitespace-separated field of t
Field(t, n) ==
    LET p == CHOOSE q \in FieldStarts(t) :
                 Cardinality({ r \in FieldStarts(t) : r <= q }) = n
        e == CHOOSE q \in p..Len(t) :
                 /\ \A r \in p..q : ~is_whitespace(t[r])
                 /\ q = Len(t) \/ is_whitespace(t[q + 1])
    IN SubSeq(t, p, e)

\* the record that a body line of the swap table stands for, as an Option:
\* the first field with its octal triplets decoded and the second field; no
\* record for fewer than two fields or for a zram device
SwapRecordOfLine(line) ==
    IF Cardinality(FieldStarts(line)) < 2 THEN <<>>
    ELSE IF BeginsWith(TripletsDecoded(Field(line, 1), 255),
                       <<"/", "d", "e", "v", "/", "z", "r", "a", "m">>)
    THEN <<>>
    ELSE << [filename |-> TripletsDecoded(Field(line, 1), 255),
             swap_type |-> Field(line, 2)] >>

\* records are those of the lines of the swap table content (an Option)
\* after the first, in table order
SwapRecordsOf(content, records) ==
    LET ls == IF content = <<>> THEN <<>> ELSE lines(content[1])
        kept == { k \in 2..Len(ls) : SwapRecordOfLine(ls[k]) /= <<>> }
    IN /\ Len(records) = Cardinality(kept)
       /\ \A k \in kept :
            records[Cardinality({ q \in kept : q <= k })]
              = SwapRecordOfLine(ls[k])[1]

\* read_swaps returns the records of the lines after the first that have
\* two fields and are not of a zram device
ReadSwapsByLine ==
    /\ \A k \in 1..Len(ret) :
         call[k].fn = "read_swaps" => SwapRecordsOf(call[k].args[1], ret[k])
    /\ (pc = "swap_loop" /\ j = 1) =>
         SwapRecordsOf(proc_swaps[Len(proc_swaps)], swaps)

C26_FindmntFailedDetail ==
    (pc = "done" /\ result.code = "FindmntFailed") =>
        LET prefix == <<"f", "i", "n", "d", "m", "n", "t", " ", "f", "a", "i", "l", "e", "d", ":", " ">>
            detail == Stripped(findmnt[1].stderr)
        IN /\ code(result.code) = "E005"
           /\ result.message =
                prefix \o (IF detail = <<>>
                           THEN <<"u", "n", "k", "n", "o", "w", "n", " ", "e", "r", "r", "o", "r">>
                           ELSE detail)
           /\ Len(result.message) > Len(prefix)



\* C27: whenever run returns an error, it has written nothing to stdout:
\* E001 to E005 are returned before the mount loop and the swap loop, and
\* E006 only when no mount block and no swap block was written; so any
\* output on stdout implies that run returns Ok.
C27_ErrorsWriteNothing ==
    /\ (pc = "done" /\ result.status = "Err") =>
         /\ result.code \in ErrorCode
         /\ stdout = <<>>
         /\ entries = <<>>
         /\ result.code /= "NoFilesystems" =>
              /\ proc_swaps = <<>>
              /\ blkid_calls = <<>>
              /\ ~FindmntSucceeded
    /\ (pc = "done" /\ stdout /= <<>>) => result = Ok

\* C27 witness: run went through a mount table and a swap table that held
\* records, emitted none of them and returned E006 with stdout empty
C27_Witness ==
    /\ pc = "done"
    /\ result.code = "NoFilesystems"
    /\ mounts /= <<>>
    /\ swaps /= <<>>
    /\ stdout = <<>>



\* C28: a mount record rejected by the root-subtree filter or by the
\* pseudo-filesystem filter is never added to the duplicate-target set: a
\* real record is emitted although a pseudo-filesystem record with the same
\* target precedes it, and at every point of the loop the set holds exactly
\* the targets of the mount entries emitted so far.
C28_SeenTargetsAreEmittedTargets ==
    (pc \in {"mount_loop", "swap_loop", "done"} /\ FindmntSucceeded) =>
        /\ seen_targets = { mounts[entries[e].index].target : e \in MountEntries }
        /\ \A k \in 1..(i - 1) :
             (/\ PassesFilters(k)
              /\ \A m \in 1..(k - 1) :
                   mounts[m].target = mounts[k].target => ~PassesFilters(m))
             => \E e \in MountEntries : entries[e].index = k

\* C28 witness: the autofs record of /mnt came first and was dropped, the
\* ext4 record of /mnt came second and was emitted, and /mnt is the one
\* target in the set
C28_Witness ==
    /\ pc = "mount_loop"
    /\ i = 3
    /\ mounts[1].fstype = <<"a", "u", "t", "o", "f", "s">>
    /\ mounts[1].target = <<"/", "m", "n", "t">>
    /\ mounts[2].fstype = <<"e", "x", "t", "4">>
    /\ mounts[2].target = <<"/", "m", "n", "t">>
    /\ \E e \in MountEntries : entries[e].index = 2
    /\ seen_targets = { <<"/", "m", "n", "t">> }



\* the part of a source before its first '['
DevicePart(source) ==
    LET ks == { k \in 1..Len(source) : source[k] = "[" } IN
    IF ks = {} THEN source
    ELSE SubSeq(source, 1, (CHOOSE k \in ks : \A q \in ks : k <= q) - 1)

\* the entries emitted for a source whose device part begins with /dev/
DevEntries ==
    { e \in 1..Len(entries) :
        BeginsWith(DevicePart(entries[e].source), <<"/", "d", "e", "v", "/">>) }

\* C29: blkid is invoked only for records that are emitted and whose device
\* path begins with /dev/, once for each such mount entry and block-device
\* swap entry, in the order of the entries, for that device path and the tag
\* asked for; never for a record that a filter dropped, for a source with a
\* tag prefix, for a source outside /dev, or for a swap file.
C29_LookupsOnlyForEmittedDevices ==
    /\ Len(blkid_calls) = Cardinality(DevEntries)
    /\ \A e \in DevEntries :
         LET c == blkid_calls[Cardinality({ d \in DevEntries : d <= e })] IN
         /\ c.device = DevicePart(entries[e].source)
         /\ c.tag = blkid_tag(id_type)
         /\ ~has_identifier_prefix(entries[e].source)
         /\ entries[e].kind = "swap" => ~is_swap_file(entries[e].source)
    /\ pc = "done" =>
         Len(blkid_calls) <= Cardinality({ k \in 1..Len(mounts) : PassesFilters(k) })
                              + Len(swaps)

\* C29 witness: the run is over; of three records, the autofs record of
\* /mnt was dropped, the ext4 record of /mnt on /dev/sda1 was emitted after
\* one lookup, and the record of /mnt/ with a UUID= source was emitted
\* without one
C29_Witness ==
    /\ pc = "done"
    /\ Len(mounts) >= 2
    /\ mounts[1].fstype = <<"a", "u", "t", "o", "f", "s">>
    /\ mounts[2].source = <<"/", "d", "e", "v", "/", "s", "d", "a", "1">>
    /\ \E e \in MountEntries : entries[e].index = 2
    /\ Len(blkid_calls) = 1
    /\ blkid_calls[1].device = <<"/", "d", "e", "v", "/", "s", "d", "a", "1">>



\* the swap helpers returned what the mount helpers give for the same path
\* and root: is_swap_under_root the answer of is_under_root, and
\* get_swap_target, for a path under the root, the string of
\* make_fstab_target
SwapHelperAgrees(k) ==
    LET p == call[k].args[1].filename
        r == call[k].args[2]
    IN /\ call[k].fn = "is_swap_under_root" => ret[k] = is_under_root(p, r)
       /\ (call[k].fn = "get_swap_target" /\ is_under_root(p, r))
            => ret[k] = make_fstab_target(p, r)

\* C30 as stated: for every normalized scan root and every swap-file path p
\* not beginning with /dev/, is_swap_under_root gives the answer of
\* is_under_root(p, root), and whenever p is under the root get_swap_target
\* gives the string of make_fstab_target(p, root).
C30_SwapHelpersAgree ==
    \A k \in 1..Len(ret) :
        call[k].fn \in {"is_swap_under_root", "get_swap_target"}
        => SwapHelperAgrees(k)

====
